---------------------------- MODULE Spec2Model ----------------------------
(***************************************************************************)
(* State-machine model of the signal-store feature layer:                  *)
(*   withRequestStatus  (request lifecycle, auto-reset timers)             *)
(*   withResetState     (reset snapshot)                                   *)
(*   withStorage        (persist / rehydrate / cross-tab broadcast)        *)
(*   withLogger         (diff-gated console groups)                        *)
(*   withNavigation     (menu evaluation and expansion)                    *)
(*                                                                         *)
(* JavaScript values are modelled by string tokens: "undefined" is an      *)
(* absent field or argument, "null" is null, "empty" is the empty string   *)
(* '', "zero" is the number 0, "false" is the boolean false.  Every other  *)
(* token is a truthy value.                                                *)
(***************************************************************************)
EXTENDS Integers, Sequences, FiniteSets, TLC

VARIABLES
    requests,       \* withRequestStatus: event key -> request entity
    timers,         \* live setTimeout callbacks of the auto-reset
    eventTimeouts,  \* keys present in the eventTimeouts Map
    effectPending,  \* the onInit effect is dirty and waits for its flush
    sinceMark,      \* ticks since the last mark call on any key
    sinceSettle,    \* per key: ticks since the last settle call for the key
    awaiting,       \* per key: a settle call whose auto-reset has not fired
    doubleSettle,   \* per key: the last settle call came while awaiting
    resetAge,       \* per key: sinceSettle when the timer last set it idle
    lastMessage,    \* per key: payload.message of the settle call that set the entity
    authState,      \* the store's own state beside requests (AuthStore: session)
    destroyed,      \* the store with withRequestStatus was destroyed
    fields,         \* withResetState store: state field -> value
    initialState,   \* withResetState: the captured reset snapshot
    resetPhase,     \* withResetState store: "new" | "ready" | "reset"
    stateAtInit,    \* the state held when withResetState's onInit ran
    atReset,        \* the state just before the last resetState()
    options,        \* withStorage: the normalized options
    tabPhase,       \* per tab: "closed" | "fresh" | "open"
    tabState,       \* per tab: the store state
    tabDirty,       \* per tab: the persist effect is dirty
    dirtyBy,        \* per tab: "none", or "own" | "receive": what made the effect dirty
    inbox,          \* per tab: broadcast messages in flight to the tab
    storage,        \* the shared storage: key -> item
    channel,        \* per tab: the store holds an open BroadcastChannel
    persisting,     \* per tab: the persist effect is registered
    raised,         \* the sites whose errors the last hook, effect run or
                    \* listener run gave to options.exception
    escaped,        \* an error left a hook, the effect or the listener uncaught
    rebroadcast,    \* some tab posted although only a receipt had made it dirty
    changes,        \* number of local method calls, strings from elsewhere
                    \* and throwing callees so far
    lastPersisted,  \* the projection the persist effect last wrote
    hydratedFrom,   \* per tab: lastPersisted when the tab's onInit ran
    loggerOptions,  \* withLogger: disabled and monitor
    commonState,    \* CommonStore: state key -> [ref, val]
    previousState,  \* withLogger: the effect's previousState
    loggerDirty,    \* withLogger: the effect is dirty and waits for its flush
    logEntries,     \* the console groups so far: [prev, next]
    lastSnapshot,   \* the monitored values at the effect's last run (at
                    \* onInit before the first)
    patches,        \* number of patches of CommonStore so far
    declaredMenu,   \* PlatformStore: _menuItems
    navigationEnd,  \* routerState.navigationEnd: <<>> (null) or <<url>>
    menuItems,      \* withNavigation: the value of the menuItems signal
    toggles,        \* number of toggleMenuExpansion calls so far
    viewState,      \* ViewTransitionStore: _transitionMode, _transitionTarget
    resetTimers,    \* the timers of resetTransitionMode that are subscribed
    transitionPhase,\* per view transition: "new" | "dropped" | "running" |
                    \* "finished" (frame requested) | "done"
    nextTransition, \* the id the next view transition gets
    stateOwner,     \* the transition whose handleTransition set viewState (0: none)
    lastTimeout,    \* the timeout of the latest resetTransitionMode call
    sinceReset,     \* ticks since the latest resetTransitionMode call
    resetFired,     \* the reset of the latest call has run
    routerState,    \* Router: the version of router.routerState.snapshot
    routerEvent,    \* the routerEvent signal: <<>> (null) or <<[id, kind]>>
    scanState,      \* withRouterState: the accumulator of isNavigating's scan
    distinctLast,   \* per pipeline: the value distinctUntilChanged last let
                    \* through, as a set (empty before the first)
    isNavigating,   \* withRouterState: the isNavigating signal
    serviceIsNavigating, \* RouterState service: the isNavigating signal
    navigationEndSignal, \* the navigationEnd signal: <<>> (null) or
                    \* <<[event, state]>>
    routerSnapshot, \* the routerSnapshot signal
    emittedKinds,   \* the kinds of the router events emitted so far
    accessed,       \* <<>>, or <<the latest accessor call: its function,
                    \* arguments and outcome>>
    inFlight,       \* AuthStore, per method: switchMap holds a subscription
                    \* to the operation of the latest call
    subscribed,     \* per method: the rxMethod's stream is alive
    uncaught,       \* an error reached an rxMethod's subscriber
    authStep,       \* <<>>, or <<the latest call, success or failure of an
                    \* AuthStore method>>
    navSnapshot,    \* Navigation: the router snapshot, as the levels of its
                    \* primary-outlet chain from the root
    breadcrumbs     \* what resolveBreadcrumbs(navSnapshot) returned, when done

reqVars == <<requests, timers, eventTimeouts, effectPending, sinceMark,
             sinceSettle, awaiting, doubleSettle, resetAge, lastMessage,
             authState, destroyed>>
resetVars == <<fields, initialState, resetPhase, stateAtInit, atReset>>
tabVars == <<options, tabPhase, tabState, tabDirty, dirtyBy, inbox, storage,
             channel, persisting, raised, escaped,
             rebroadcast, changes, lastPersisted, hydratedFrom>>
logVars == <<loggerOptions, commonState, previousState, loggerDirty,
             logEntries, lastSnapshot, patches>>
menuVars == <<declaredMenu, navigationEnd, menuItems, toggles>>
viewVars == <<viewState, resetTimers, transitionPhase, nextTransition,
              stateOwner, lastTimeout, sinceReset, resetFired>>
routerVars == <<routerState, routerEvent, scanState, distinctLast,
                isNavigating, serviceIsNavigating, navigationEndSignal,
                routerSnapshot, emittedKinds>>
accVars == <<accessed>>
authVars == <<inFlight, subscribed, uncaught, authStep>>
navVars == <<navSnapshot, breadcrumbs>>
svcVars == <<viewVars, routerVars, accVars, authVars, navVars>>
vars == <<reqVars, resetVars, tabVars, logVars, menuVars, svcVars>>

(***************************************************************************)
(* JavaScript operators on the value tokens.                               *)
(***************************************************************************)
Falsy == {"undefined", "null", "empty", "zero", "false"}

\* !!v
Truthy(v) == v \notin Falsy

\* v ?? d
NullishOr(v, d) == IF v \in {"undefined", "null"} THEN d ELSE v

\* v || d
FalsyOr(v, d) == IF Truthy(v) THEN v ELSE d

\* patchState(store, partial): the keys of partial replace the state's.
patchState(state, partial) ==
    [k \in DOMAIN state |->
        IF k \in DOMAIN partial THEN partial[k] ELSE state[k]]

\* pick(object, keys) and omit(object, keys)
pick(obj, ks) == [k \in (DOMAIN obj) \cap ks |-> obj[k]]
omit(obj, ks) == [k \in (DOMAIN obj) \ ks |-> obj[k]]

(***************************************************************************)
(* withRequestStatus                                                       *)
(***************************************************************************)
\* The declared event keys (two of AuthEvent's).
Events == {"SIGN_IN", "SIGN_OUT"}

\* A key the events option does not name.
UndeclaredEvents == {"RESET_PASSWORD"}
AllEvents == Events \cup UndeclaredEvents

\* resetDelay, in ticks of 500 ms (1500 ms).
resetDelay == 3

\* Values a caller passes as payload.data and payload.message.
DataInputs == {"undefined", "null", "zero", "false", "empty", "d1"}
MessageInputs == {"undefined", "empty", "ok"}

\* The payloads of the timing study: with and without data and message.
TimingData == {"undefined", "d1"}
TimingMessages == {"undefined", "ok"}

\* The key of the payload study.
PayloadEvents == {"SIGN_IN"}

\* The keys of the key study: a declared one and an undeclared one.
KeyEvents == {"SIGN_IN"} \cup UndeclaredEvents

\* The store's own initial state (AuthStore's initialState).
authInitialState == [k \in {"session"} |-> "null"]

\* Extra fields of a settle payload: session is a state key, token is not.
NoExtras == [k \in {} |-> "null"]
ExtraInputs ==
    {[k \in {"session"} |-> "s1"], [k \in {"session"} |-> "s2"],
     [k \in {"token"} |-> "t1"],
     [k \in {"session", "token"} |-> IF k = "session" THEN "s1" ELSE "t1"]}

Settled == {"fulfilled", "rejected"}

\* An entity without data field has data "undefined".
Entity(s, m, d) == [status |-> s, message |-> m, data |-> d]

\* No entity under the key (requests[event] is undefined).
NoEntity == Entity("undefined", "undefined", "undefined")

\* initialState(events).requests
initialRequests == [e \in Events |-> Entity("idle", "null", "undefined")]

\* Mutant: isIdle without the test for a missing entity.
getRequestSnapshotOfEntity(event, entity) ==
    [event |-> event,
     data |-> NullishOr(entity.data, "null"),
     status |-> FalsyOr(entity.status, "idle"),
     message |-> FalsyOr(entity.message, "null"),
     isPending |-> entity.status = "pending",
     isDisabled |-> entity.status = "pending",
     isRejected |-> entity.status = "rejected",
     isFulfilled |-> entity.status = "fulfilled",
     isIdle |-> entity.status = "idle"]

\* _getRequestSnapshot(event, entity)
getRequestSnapshot(event, entity) ==
    [event |-> event,
     data |-> NullishOr(entity.data, "null"),
     status |-> FalsyOr(entity.status, "idle"),
     message |-> FalsyOr(entity.message, "null"),
     isPending |-> entity.status = "pending",
     isDisabled |-> entity.status = "pending",
     isRejected |-> entity.status = "rejected",
     isFulfilled |-> entity.status = "fulfilled",
     isIdle |-> (entity = NoEntity \/ entity.status = "idle")]

\* requestStatus()[event]
requestStatus(event) ==
    getRequestSnapshot(event,
        IF event \in DOMAIN requests THEN requests[event] ELSE NoEntity)

\* { ...state.requests, [event]: entity }
withEntity(reqs, event, entity) ==
    [e \in (DOMAIN reqs) \cup {event} |->
        IF e = event THEN entity ELSE reqs[e]]

\* setIdle(event)(state).requests
setIdle(reqs, event) ==
    withEntity(reqs, event, Entity("idle", "null", "undefined"))

\* setPending(event)(state).requests
setPending(reqs, event) ==
    withEntity(reqs, event, Entity("pending", "null", "undefined"))

\* Mutant: message stored with ?? instead of ||, so '' is kept.
settledEntityKeepsEmpty(status, data, message) ==
    Entity(status, NullishOr(message, "null"),
           IF Truthy(data) THEN data ELSE "undefined")

\* The entity setFulfilled / setRejected write for a payload {data, message}.
settledEntity(status, data, message) ==
    Entity(status, FalsyOr(message, "null"),
           IF Truthy(data) THEN data ELSE "undefined")

\* setFulfilled(event, payload)(state).requests
setFulfilled(reqs, event, data, message) ==
    withEntity(reqs, event, settledEntity("fulfilled", data, message))

\* setRejected(event, payload)(state).requests
setRejected(reqs, event, data, message) ==
    withEntity(reqs, event, settledEntity("rejected", data, message))

\* markResolved(event, status, result): the patched requests.
markResolved(reqs, event, status, data, message) ==
    LET d == NullishOr(data, "null")
        m == NullishOr(message, "empty")
    IN  IF status = "fulfilled"
        THEN setFulfilled(reqs, event, d, m)
        ELSE setRejected(reqs, event, d, m)

Cap(n) == IF n > resetDelay THEN resetDelay + 1 ELSE n

\* A timer that is due runs before any call made later.
NoTimerDue == \A t \in timers : t.left > 0

\* A mark call's bookkeeping of the elapsed-time observers.
Marked(event, settle, message) ==
    /\ sinceMark' = 0
    /\ sinceSettle' = IF settle THEN [sinceSettle EXCEPT ![event] = 0]
                      ELSE sinceSettle
    /\ awaiting' = IF settle THEN [awaiting EXCEPT ![event] = TRUE]
                   ELSE awaiting
    /\ doubleSettle' = [doubleSettle EXCEPT
                          ![event] = settle /\ awaiting[event]]
    /\ resetAge' = [resetAge EXCEPT ![event] = -1]
    /\ lastMessage' = [lastMessage EXCEPT
                         ![event] = IF settle THEN message ELSE "none"]

\* markPending(event)
markPending(event) ==
    /\ ~destroyed
    /\ NoTimerDue
    /\ requests' = setPending(requests, event)
    /\ effectPending' = TRUE
    /\ Marked(event, FALSE, "none")
    /\ UNCHANGED <<timers, eventTimeouts, authState, destroyed>>

\* Mutant: the payload's extra fields are not patched.
normalizedNothing(result, state) == [k \in {} |-> "null"]

\* markResolved's normalizedState: pick(result, stateKeys).  The fields
\* data and message of the result are no state keys of the store.
normalizedState(result, state) == pick(result, DOMAIN state)

\* patchState(store, statusUpdater, normalizedState): one patch of the
\* requests and of the store's own state.
resolvedPatch(event, status, data, message, extras) ==
    /\ requests' = markResolved(requests, event, status, data, message)
    /\ authState' = patchState(authState, normalizedState(extras, authState))

\* markFulfilled(event, result) with the result's extra fields
markFulfilledExtras(event, data, message, extras) ==
    /\ ~destroyed
    /\ NoTimerDue
    /\ resolvedPatch(event, "fulfilled", data, message, extras)
    /\ effectPending' = TRUE
    /\ Marked(event, TRUE, message)
    /\ UNCHANGED <<timers, eventTimeouts, destroyed>>

\* markRejected(event, result) with the result's extra fields
markRejectedExtras(event, data, message, extras) ==
    /\ ~destroyed
    /\ NoTimerDue
    /\ resolvedPatch(event, "rejected", data, message, extras)
    /\ effectPending' = TRUE
    /\ Marked(event, TRUE, message)
    /\ UNCHANGED <<timers, eventTimeouts, destroyed>>

\* markFulfilled(event, {data, message})
markFulfilled(event, data, message) ==
    markFulfilledExtras(event, data, message, NoExtras)

\* markRejected(event, {data, message})
markRejected(event, data, message) ==
    markRejectedExtras(event, data, message, NoExtras)

\* A live timer: its event, the ticks left, and whether it is the one the
\* eventTimeouts Map holds for the event.
Timer(event, left, reg) == [event |-> event, left |-> left, registered |-> reg]

\* One entry of the effect's forEach: a settled key has its registered timer
\* cleared and a new one scheduled and registered.
rescheduled(ts, reqs, event) ==
    IF reqs[event].status \in Settled
    THEN {t \in ts : ~(t.event = event /\ t.registered)}
             \cup {Timer(event, resetDelay, TRUE)}
    ELSE ts

RECURSIVE rescheduleAll(_, _, _)
rescheduleAll(ts, reqs, evs) ==
    IF evs = {} THEN ts
    ELSE LET e == CHOOSE x \in evs : TRUE
         IN  rescheduleAll(rescheduled(ts, reqs, e), reqs, evs \ {e})

\* The onInit effect's flush: it reads requests() and walks every entry.
RunEffect ==
    /\ ~destroyed
    /\ effectPending
    /\ effectPending' = FALSE
    /\ timers' = rescheduleAll(timers, requests, DOMAIN requests)
    /\ eventTimeouts' = eventTimeouts
                            \cup {e \in DOMAIN requests :
                                     requests[e].status \in Settled}
    /\ UNCHANGED <<requests, sinceMark, sinceSettle, awaiting, doubleSettle,
                   resetAge, lastMessage, authState, destroyed>>

\* A due timer's callback: patchState(store, setIdle(event)).
FireTimer ==
    \E t \in timers :
        /\ t.left = 0
        /\ timers' = timers \ {t}
        /\ requests' = setIdle(requests, t.event)
        /\ effectPending' = TRUE
        /\ awaiting' = [awaiting EXCEPT ![t.event] = FALSE]
        /\ resetAge' = [resetAge EXCEPT ![t.event] = sinceSettle[t.event]]
        /\ lastMessage' = [lastMessage EXCEPT ![t.event] = "none"]
        /\ UNCHANGED <<eventTimeouts, sinceMark, sinceSettle, doubleSettle,
                       authState, destroyed>>

\* Half a second passes: only once the effect is flushed and every due
\* timer has run.
Tick ==
    /\ ~effectPending
    /\ NoTimerDue
    /\ \/ timers # {}
       \/ sinceMark <= resetDelay
    /\ timers' = {Timer(t.event, t.left - 1, t.registered) : t \in timers}
    /\ sinceMark' = Cap(sinceMark + 1)
    /\ sinceSettle' = [e \in AllEvents |-> Cap(sinceSettle[e] + 1)]
    /\ UNCHANGED <<requests, eventTimeouts, effectPending, awaiting,
                   doubleSettle, resetAge, lastMessage, authState, destroyed>>

\* Mutant: onDestroy leaves the timers running.
clearNone(ts) == ts

\* eventTimeouts.forEach((timeout) => clearTimeout(timeout))
clearAll(ts) == {t \in ts : ~t.registered}

\* withRequestStatus.onDestroy; the effect is destroyed with the store.
Destroy ==
    /\ ~destroyed
    /\ destroyed' = TRUE
    /\ timers' = clearAll(timers)
    /\ requests' = initialRequests
    /\ eventTimeouts' = {}
    /\ effectPending' = FALSE
    /\ awaiting' = [e \in AllEvents |-> FALSE]
    /\ doubleSettle' = [e \in AllEvents |-> FALSE]
    /\ lastMessage' = [e \in AllEvents |-> "none"]
    /\ UNCHANGED <<sinceMark, sinceSettle, resetAge, authState>>

ReqInit ==
    /\ requests = initialRequests
    /\ timers = {}
    /\ eventTimeouts = {}
    /\ effectPending = TRUE
    /\ sinceMark = resetDelay + 1
    /\ sinceSettle = [e \in AllEvents |-> resetDelay + 1]
    /\ awaiting = [e \in AllEvents |-> FALSE]
    /\ doubleSettle = [e \in AllEvents |-> FALSE]
    /\ resetAge = [e \in AllEvents |-> -1]
    /\ lastMessage = [e \in AllEvents |-> "none"]
    /\ authState = authInitialState
    /\ destroyed = FALSE

\* Calls on either key, with the payloads of the timing study.
MarkPending == \E e \in Events : markPending(e)
MarkFulfilled ==
    \E e \in Events, d \in TimingData, m \in TimingMessages :
        markFulfilled(e, d, m)
MarkRejected ==
    \E e \in Events, d \in TimingData, m \in TimingMessages :
        markRejected(e, d, m)

\* Calls on one key, with every kind of payload value.
MarkPendingOne == \E e \in PayloadEvents : markPending(e)
MarkFulfilledWith ==
    \E e \in PayloadEvents, d \in DataInputs, m \in MessageInputs :
        markFulfilled(e, d, m)
MarkRejectedWith ==
    \E e \in PayloadEvents, d \in DataInputs, m \in MessageInputs :
        markRejected(e, d, m)

\* Calls on a declared and on an undeclared key.
MarkPendingAny == \E e \in KeyEvents : markPending(e)
MarkFulfilledAny ==
    \E e \in KeyEvents, d \in TimingData, m \in TimingMessages :
        markFulfilled(e, d, m)
MarkRejectedAny ==
    \E e \in KeyEvents, d \in TimingData, m \in TimingMessages :
        markRejected(e, d, m)

\* Settle calls whose payload carries extra fields.
MarkFulfilledExtras ==
    \E e \in PayloadEvents, d \in TimingData, m \in TimingMessages,
       x \in ExtraInputs : markFulfilledExtras(e, d, m, x)
MarkRejectedExtras ==
    \E e \in PayloadEvents, d \in TimingData, m \in TimingMessages,
       x \in ExtraInputs : markRejectedExtras(e, d, m, x)

(***************************************************************************)
(* withResetState, on a store with one public and one internal field       *)
(***************************************************************************)
FieldNames == {"session", "_menuItems"}
FieldValues == {"v0", "v1", "v2"}

\* TStore<TState>: the keys not prefixed with '_'.
PublicFields == {"session"}
InternalFields == FieldNames \ PublicFields

\* getStateSource(store): getState(store), the whole state.
getStateSource(state) == state

\* withResetState.onInit: store._setInitialState(getStateSource(store))
ResetOnInit ==
    /\ resetPhase = "new"
    /\ initialState' = getStateSource(fields)
    /\ stateAtInit' = fields
    /\ resetPhase' = "ready"
    /\ UNCHANGED <<fields, atReset>>

\* Any patch of one field by the store's own methods.
PatchField ==
    \E k \in FieldNames, v \in FieldValues :
        /\ resetPhase # "new"
        /\ fields[k] # v
        /\ fields' = patchState(fields, [x \in {k} |-> v])
        /\ resetPhase' = "ready"
        /\ UNCHANGED <<initialState, stateAtInit, atReset>>

\* resetState(): patchState(store, overrideState ?? initialState)
ResetState ==
    /\ resetPhase # "new"
    /\ fields' = patchState(fields, initialState)
    /\ atReset' = fields
    /\ resetPhase' = "reset"
    /\ UNCHANGED <<initialState, stateAtInit>>

ResetInit ==
    /\ fields \in [FieldNames -> FieldValues]
    /\ initialState = [k \in {} |-> "v0"]
    /\ resetPhase = "new"
    /\ stateAtInit = fields
    /\ atReset = fields

(***************************************************************************)
(* withStorage, on LayoutStore running in several tabs                     *)
(***************************************************************************)
Tabs == {"tab1", "tab2"}

\* Most local method calls, strings from elsewhere and throwing callees in
\* one behaviour.
MaxChanges == 2
\* Most messages in flight to one tab.
MaxInbox == 2

Keys == {"accessLayoutMode", "platformLayoutMode", "isNavigationDrawerVisible"}

\* The order in which JSON.stringify writes the keys.
KeyOrder == <<"accessLayoutMode", "platformLayoutMode",
              "isNavigationDrawerVisible">>

PlatformModes == {"compact", "extended", "collapsed"}
AccessModes == {"compact", "extended"}

\* LayoutStore's initialState.
layoutInitialState ==
    [k \in Keys |-> IF k = "isNavigationDrawerVisible" THEN "false"
                    ELSE "extended"]

\* LayoutStore's withStorage options.
LayoutOptions ==
    [include |-> {"platformLayoutMode"}, exclude |-> {},
     gate |-> "notCollapsed", broadcast |-> TRUE]

\* Configurations of the round-trip study: include or exclude filters, with
\* and without LayoutStore's shouldStore, no broadcast channel.
RoundTripOptions ==
    {[include |-> i, exclude |-> e, gate |-> g, broadcast |-> FALSE] :
        i \in {{}, {"platformLayoutMode"},
                {"accessLayoutMode", "isNavigationDrawerVisible"}},
        e \in {{}, {"accessLayoutMode"}},
        g \in {"always", "notCollapsed"}}

\* Configurations of the persistence study: LayoutStore's own with an
\* exclude list beside its include list, and one with exclude alone and no
\* broadcast channel.
PersistOptions ==
    {[include |-> {"platformLayoutMode"},
      exclude |-> {"platformLayoutMode", "accessLayoutMode"},
      gate |-> "notCollapsed", broadcast |-> TRUE],
     [include |-> {}, exclude |-> {"isNavigationDrawerVisible"},
      gate |-> "notCollapsed", broadcast |-> FALSE]}

\* The platforms of PLATFORM_ID.
Platforms == {"browser", "server"}

\* JSON.stringify of a flat object: its key/value pairs, in key order.
RECURSIVE stringifyFrom(_, _)
stringifyFrom(obj, i) ==
    IF i > Len(KeyOrder) THEN <<>>
    ELSE IF KeyOrder[i] \in DOMAIN obj
         THEN <<<<KeyOrder[i], obj[KeyOrder[i]]>>>> \o stringifyFrom(obj, i + 1)
         ELSE stringifyFrom(obj, i + 1)

serialize(obj) == stringifyFrom(obj, 1)

\* JSON.parse: the object of the pairs (a later pair of a key wins).
deserialize(json) ==
    [k \in {json[i][1] : i \in DOMAIN json} |->
        json[CHOOSE i \in DOMAIN json :
                /\ json[i][1] = k
                /\ \A j \in DOMAIN json : json[j][1] = k => j <= i][2]]

\* The storage item: absent (getItem gives null), or a string.
NoItem == [present |-> FALSE, json |-> <<>>]
Item(json) == [present |-> TRUE, json |-> json]

\* The keys of the shared storage: LayoutStore's and another store's.
storeKey == "ng-layout-state"
StorageKeys == {storeKey, "ng-auth-session"}

\* storage().getItem(key) and storage().setItem(key, value)
getItem(items, k) == items[k]
setItem(items, k, value) == [items EXCEPT ![k] = Item(value)]

\* A string JSON.parse throws on.
Corrupt == <<<<"{", "{">>>>
parses(json) == json # Corrupt

\* The object without keys: nothing was persisted.
Nothing == [k \in {} |-> "null"]

\* Mutant: the default shouldStore, which lets every state through.
shouldStoreAlways(opts, state) == TRUE

\* shouldStore(state)
shouldStore(opts, state) ==
    opts.gate = "always" \/ state["platformLayoutMode"] # "collapsed"

\* Mutant: exclude is looked at first.
persistableExcludeFirst(opts, state) ==
    IF opts.exclude # {} THEN omit(state, opts.exclude)
    ELSE pick(state, opts.include)

\* The effect's persistableState.
persistableState(opts, state) ==
    IF opts.include # {} THEN pick(state, opts.include)
    ELSE omit(state, opts.exclude)

\* _sanitizeAndUpdateState(state): the patched store state.
sanitizeAndUpdateState(state, incoming) ==
    LET sanitizedState == pick(incoming, DOMAIN state)
    IN  IF DOMAIN sanitizedState # {} THEN patchState(state, sanitizedState)
        ELSE state

\* Mutant: the persisted item is not applied.
rehydrateNothing(state, item) == state

\* resolvePersistedState + _sanitizeAndUpdateState at onInit.
rehydratePersistedState(state, item) ==
    IF ~item.present \/ ~parses(item.json) THEN state
    ELSE sanitizeAndUpdateState(state, deserialize(item.json))

\* A patch makes the persist effect dirty when a root value changed.
Touch(t, newState, cause) ==
    /\ tabState' = [tabState EXCEPT ![t] = newState]
    /\ tabDirty' = [tabDirty EXCEPT
                       ![t] = @ \/ (persisting[t] /\ newState # tabState[t])]
    /\ dirtyBy' = [dirtyBy EXCEPT
                     ![t] = IF newState = tabState[t] \/ ~persisting[t] THEN @
                            ELSE IF cause = "receive" /\ @ # "own"
                                 THEN "receive" ELSE "own"]
    /\ tabPhase' = [tabPhase EXCEPT ![t] = "open"]

\* The sites of withStorage at which a callee can throw, and those of them
\* enclosed in a try whose catch hands the error to options.exception.
FaultSites == {"getItem", "deserialize", "channel", "serialize",
               "postMessage", "setItem", "onmessage"}
TrySitesButListener == FaultSites \ {"onmessage"}
TrySites == FaultSites

\* The errors of a step that reach options.exception, and whether one of
\* them leaves the step uncaught.
Raise(sites) ==
    /\ raised' = sites \cap TrySites
    /\ escaped' = (escaped \/ sites \ TrySites # {})

\* A callee that throws is counted.
Throwing(fault) ==
    /\ fault # "none" => changes < MaxChanges
    /\ changes' = IF fault = "none" THEN changes ELSE changes + 1

\* A store instance is created in the tab: withStorage.onInit on the given
\* platform; fault names the callee that throws during it, if any.
OpenWith(t, platform, fault) ==
    LET item == getItem(storage, storeKey)
        readFails == fault = "getItem"
        parseFails == ~readFails /\ item.present /\ ~parses(item.json)
        channelFails == options.broadcast /\ fault = "channel"
        client == platform # "server"
    IN  /\ tabPhase[t] = "closed"
        /\ Throwing(fault)
        /\ fault = "channel" => options.broadcast
        /\ ~client => fault = "none"
        /\ tabPhase' = [tabPhase EXCEPT ![t] = "fresh"]
        /\ tabState' = [tabState EXCEPT
                          ![t] = IF client /\ ~readFails
                                 THEN rehydratePersistedState(layoutInitialState, item)
                                 ELSE layoutInitialState]
        /\ channel' = [channel EXCEPT
                         ![t] = client /\ options.broadcast /\ ~channelFails]
        /\ persisting' = [persisting EXCEPT ![t] = client]
        /\ tabDirty' = [tabDirty EXCEPT ![t] = client]
        /\ dirtyBy' = [dirtyBy EXCEPT ![t] = IF client THEN "own" ELSE "none"]
        /\ inbox' = [inbox EXCEPT ![t] = <<>>]
        /\ hydratedFrom' = [hydratedFrom EXCEPT
                              ![t] = IF client /\ ~readFails /\ ~parseFails
                                     THEN lastPersisted ELSE Nothing]
        /\ Raise((IF readFails THEN {"getItem"} ELSE {})
                    \cup (IF client /\ parseFails THEN {"deserialize"} ELSE {})
                    \cup (IF channelFails THEN {"channel"} ELSE {}))
        /\ UNCHANGED <<options, storage, rebroadcast, lastPersisted>>

\* The instance is created in a browser tab and nothing throws.
Open(t) == OpenWith(t, "browser", "none")

\* The tab is closed or reloaded: withStorage.onDestroy, and the store
\* instance with its effect is gone.
Close(t) ==
    /\ tabPhase[t] # "closed"
    /\ tabPhase' = [tabPhase EXCEPT ![t] = "closed"]
    /\ tabState' = [tabState EXCEPT ![t] = layoutInitialState]
    /\ tabDirty' = [tabDirty EXCEPT ![t] = FALSE]
    /\ dirtyBy' = [dirtyBy EXCEPT ![t] = "none"]
    /\ inbox' = [inbox EXCEPT ![t] = <<>>]
    /\ channel' = [channel EXCEPT ![t] = FALSE]
    /\ persisting' = [persisting EXCEPT ![t] = FALSE]
    /\ hydratedFrom' = [hydratedFrom EXCEPT ![t] = Nothing]
    /\ Raise({})
    /\ UNCHANGED <<options, storage, rebroadcast, changes, lastPersisted>>

Local(t, newState) ==
    /\ tabPhase[t] # "closed"
    /\ changes < MaxChanges
    /\ changes' = changes + 1
    /\ Touch(t, newState, "own")
    /\ UNCHANGED <<options, inbox, storage, channel, persisting, raised,
                   escaped, rebroadcast, lastPersisted, hydratedFrom>>

\* setAccessLayoutMode(mode)
setAccessLayoutMode(t, mode) ==
    Local(t, patchState(tabState[t], [k \in {"accessLayoutMode"} |-> mode]))

\* setPlatformLayoutMode(mode)
setPlatformLayoutMode(t, mode) ==
    Local(t, patchState(tabState[t],
        [k \in {"platformLayoutMode", "isNavigationDrawerVisible"} |->
            IF k = "platformLayoutMode" THEN mode ELSE "false"]))

\* setNavigationDrawerVisibility(visible)
setNavigationDrawerVisibility(t, visible) ==
    Local(t, patchState(tabState[t],
        [k \in {"isNavigationDrawerVisible"} |-> visible]))

\* toggleNavigationDrawerVisibility()
toggleNavigationDrawerVisibility(t) ==
    Local(t, patchState(tabState[t],
        [k \in {"isNavigationDrawerVisible"} |->
            IF tabState[t]["isNavigationDrawerVisible"] = "true"
            THEN "false" ELSE "true"]))

\* togglePlatformLayoutMode()
togglePlatformLayoutMode(t) ==
    Local(t, patchState(tabState[t],
        [k \in {"platformLayoutMode"} |->
            IF tabState[t]["platformLayoutMode"] = "extended"
            THEN "compact" ELSE "extended"]))

\* Mutant: a store without a channel of its own posts all the same.
postMessageAnyway(t, json) ==
    [u \in Tabs |->
        IF u # t /\ channel[u] THEN Append(inbox[u], json) ELSE inbox[u]]

\* broadcastStream?.postMessage(value): one message to every other tab
\* that has the channel open; nothing without a channel of one's own.
postMessage(t, json) ==
    [u \in Tabs |->
        IF u # t /\ channel[t] /\ channel[u]
        THEN Append(inbox[u], json) ELSE inbox[u]]

\* The persist effect's run; fault names the callee that throws in it, if any.
Persist(t, fault) ==
    /\ tabPhase[t] # "closed"
    /\ tabDirty[t]
    /\ Throwing(fault)
    /\ fault # "none" => shouldStore(options, tabState[t])
    /\ fault = "postMessage" => channel[t]
    /\ tabDirty' = [tabDirty EXCEPT ![t] = FALSE]
    /\ dirtyBy' = [dirtyBy EXCEPT ![t] = "none"]
    /\ IF shouldStore(options, tabState[t])
       THEN LET serializedValue ==
                    serialize(persistableState(options, tabState[t]))
                posted == fault \notin {"serialize", "postMessage"}
                stored == fault = "none"
            IN  /\ \A u \in Tabs : Len(postMessage(t, serializedValue)[u]) <= MaxInbox
                /\ inbox' = IF posted THEN postMessage(t, serializedValue)
                            ELSE inbox
                /\ storage' = IF stored
                              THEN setItem(storage, storeKey, serializedValue)
                              ELSE storage
                /\ rebroadcast' = (rebroadcast \/
                                       (posted /\ channel[t] /\ dirtyBy[t] = "receive"))
                /\ lastPersisted' = IF stored
                                    THEN persistableState(options, tabState[t])
                                    ELSE lastPersisted
       ELSE UNCHANGED <<inbox, storage, rebroadcast, lastPersisted>>
    /\ Raise(IF fault = "none" THEN {} ELSE {fault})
    /\ UNCHANGED <<options, tabPhase, tabState, channel, persisting,
                   hydratedFrom>>

\* The effect's run in which nothing throws.
RunPersist(t) == Persist(t, "none")

\* channelInstance.onmessage for the oldest message in flight to the tab;
\* fault names the callee that throws in it, if any.
Receive(t, fault) ==
    /\ tabPhase[t] # "closed"
    /\ inbox[t] # <<>>
    /\ Throwing(fault)
    /\ LET serializedValue == Head(inbox[t])
       IN  /\ fault # "none" => parses(serializedValue)
           /\ inbox' = [inbox EXCEPT ![t] = Tail(@)]
           /\ IF parses(serializedValue)
              THEN /\ Touch(t, sanitizeAndUpdateState(tabState[t],
                                   deserialize(serializedValue)), "receive")
                   /\ storage' = IF fault = "none"
                                 THEN setItem(storage, storeKey, serializedValue)
                                 ELSE storage
                   /\ Raise(IF fault = "none" THEN {} ELSE {fault})
              ELSE /\ UNCHANGED <<tabPhase, tabState, tabDirty, dirtyBy, storage>>
                   /\ Raise({"onmessage"})
    /\ UNCHANGED <<options, channel, persisting, rebroadcast,
                   lastPersisted, hydratedFrom>>

\* The message is handled and nothing but its parsing can throw.
Deliver(t) == Receive(t, "none")

\* Another script of the origin leaves a string under the store's key that
\* does not parse.
CorruptItem ==
    /\ changes < MaxChanges
    /\ changes' = changes + 1
    /\ storage' = setItem(storage, storeKey, Corrupt)
    /\ lastPersisted' = Nothing
    /\ Raise({})
    /\ UNCHANGED <<options, tabPhase, tabState, tabDirty, dirtyBy, inbox,
                   channel, persisting, rebroadcast, hydratedFrom>>

\* Another script of the origin posts a string on the channel that does not
\* parse.
CorruptMessage ==
    /\ changes < MaxChanges
    /\ changes' = changes + 1
    /\ \E t \in Tabs : channel[t] /\ Len(inbox[t]) < MaxInbox
    /\ inbox' = [u \in Tabs |->
                    IF channel[u] /\ Len(inbox[u]) < MaxInbox
                    THEN Append(inbox[u], Corrupt) ELSE inbox[u]]
    /\ Raise({})
    /\ UNCHANGED <<options, tabPhase, tabState, tabDirty, dirtyBy, storage,
                   channel, persisting, rebroadcast, lastPersisted,
                   hydratedFrom>>

TabsClosed ==
    /\ tabPhase = [t \in Tabs |-> "closed"]
    /\ tabState = [t \in Tabs |-> layoutInitialState]
    /\ tabDirty = [t \in Tabs |-> FALSE]
    /\ dirtyBy = [t \in Tabs |-> "none"]
    /\ inbox = [t \in Tabs |-> <<>>]
    /\ storage = [k \in StorageKeys |-> NoItem]
    /\ channel = [t \in Tabs |-> FALSE]
    /\ persisting = [t \in Tabs |-> FALSE]
    /\ raised = {}
    /\ escaped = FALSE
    /\ rebroadcast = FALSE
    /\ changes = 0
    /\ lastPersisted = Nothing
    /\ hydratedFrom = [t \in Tabs |-> Nothing]

\* LayoutStore as configured in the source.
TabInit == options = LayoutOptions /\ TabsClosed

\* A store with one of the round-trip configurations.
RoundTripInit == options \in RoundTripOptions /\ TabsClosed

\* A store with one of the configurations of the persistence study.
PersistInit == options \in PersistOptions /\ TabsClosed

OpenTab == \E t \in Tabs : Open(t)
OnInit ==
    \E t \in Tabs, p \in Platforms, f \in {"none", "getItem", "channel"} :
        OpenWith(t, p, f)
PersistEffectOrThrow ==
    \E t \in Tabs, f \in {"none", "serialize", "postMessage", "setItem"} :
        Persist(t, f)
OnMessageOrThrow == \E t \in Tabs, f \in {"none", "setItem"} : Receive(t, f)
CloseTab == \E t \in Tabs : Close(t)
SetAccessLayoutMode ==
    \E t \in Tabs, m \in AccessModes : setAccessLayoutMode(t, m)
SetPlatformLayoutMode ==
    \E t \in Tabs, m \in PlatformModes : setPlatformLayoutMode(t, m)
SetNavigationDrawerVisibility ==
    \E t \in Tabs, v \in {"true", "false"} : setNavigationDrawerVisibility(t, v)
ToggleNavigationDrawerVisibility ==
    \E t \in Tabs : toggleNavigationDrawerVisibility(t)
TogglePlatformLayoutMode == \E t \in Tabs : togglePlatformLayoutMode(t)
PersistEffect == \E t \in Tabs : RunPersist(t)
OnMessage == \E t \in Tabs : Deliver(t)

(***************************************************************************)
(* withLogger, on CommonStore                                              *)
(***************************************************************************)
CommonKeys == {"countries", "silentNavigation", "_titleSegment"}

\* The contents of a countries array, the title segments and the flags.
CountryLists == {"none", "in", "in_us"}
TitleSegments == {"Home", "About"}
SilentFlags == {"true", "false"}

\* A value of the state: the object it is (ref; 0 for a primitive or a
\* copy outside the store) and its content.
Value(ref, val) == [ref |-> ref, val |-> val]

\* CommonStore's initialState.
commonInitialState ==
    [k \in CommonKeys |->
        IF k = "countries" THEN Value(1, "none")
        ELSE IF k = "_titleSegment" THEN Value(0, "null")
        ELSE Value(0, "false")]

\* CommonStore's withLogger options, the same without monitor, and the
\* same with the logger disabled.
CommonLoggerOptions == [disabled |-> FALSE, monitor |-> {"countries"}]
LoggerOptions ==
    {CommonLoggerOptions,
     [disabled |-> FALSE, monitor |-> {}],
     [disabled |-> TRUE, monitor |-> {"countries"}]}

\* cloneDeep(value): new objects with the same content.
cloneDeep(obj) == [k \in DOMAIN obj |-> Value(0, obj[k].val)]

\* Mutant: the snapshots are compared as objects.
isSame(a, b) == a = b

\* isEqual(a, b): the same keys with the same content.
isEqual(a, b) ==
    DOMAIN a = DOMAIN b /\ \A k \in DOMAIN a : a[k].val = b[k].val

\* _getStateSnapshot()
getStateSnapshot(opts, state) ==
    IF opts.monitor # {} THEN pick(state, opts.monitor) ELSE state

\* What the console shows of a snapshot.
shown(obj) == [k \in DOMAIN obj |-> obj[k].val]

\* A patch of CommonStore: the effect becomes dirty when it is registered
\* and a root value is another object or primitive than before.
PatchCommon(partial) ==
    /\ patches < MaxChanges
    /\ patches' = patches + 1
    /\ commonState' = patchState(commonState, partial)
    /\ loggerDirty' = (loggerDirty \/
                          (~loggerOptions.disabled /\ commonState' # commonState))
    /\ UNCHANGED <<loggerOptions, previousState, logEntries, lastSnapshot>>

\* loadCountries(): the fetched array is patched in, a new array each time.
loadCountries(result) ==
    PatchCommon([k \in {"countries"} |->
                    Value(IF commonState["countries"].ref = 1 THEN 2 ELSE 1,
                          result)])

\* setPageTitleSegment(segment)
setPageTitleSegment(segment) ==
    PatchCommon([k \in {"_titleSegment"} |-> Value(0, segment)])

\* setSilentNavigation(isSilent)
setSilentNavigation(isSilent) ==
    PatchCommon([k \in {"silentNavigation"} |-> Value(0, isSilent)])

\* The logger effect's run.
LogEffect ==
    /\ loggerDirty
    /\ loggerDirty' = FALSE
    /\ LET currentState == getStateSnapshot(loggerOptions, commonState)
       IN  /\ IF isEqual(previousState, currentState)
              THEN UNCHANGED <<logEntries, previousState>>
              ELSE /\ logEntries' = Append(logEntries,
                                       [prev |-> shown(previousState),
                                        next |-> shown(currentState)])
                   /\ previousState' = cloneDeep(currentState)
           /\ lastSnapshot' = shown(currentState)
    /\ UNCHANGED <<loggerOptions, commonState, patches>>

\* withLogger.onInit on a new CommonStore: nothing is registered when the
\* logger is disabled; else the snapshot is copied and the effect is due
\* for its first run.
LogInit ==
    /\ loggerOptions \in LoggerOptions
    /\ commonState = commonInitialState
    /\ previousState = IF loggerOptions.disabled THEN Nothing
                       ELSE cloneDeep(getStateSnapshot(loggerOptions,
                                                       commonInitialState))
    /\ loggerDirty = ~loggerOptions.disabled
    /\ logEntries = <<>>
    /\ lastSnapshot = shown(getStateSnapshot(loggerOptions, commonInitialState))
    /\ patches = 0

LoadCountries == \E result \in CountryLists : loadCountries(result)
SetPageTitleSegment == \E segment \in TitleSegments : setPageTitleSegment(segment)
SetSilentNavigation == \E isSilent \in SilentFlags : setSilentNavigation(isSilent)

(***************************************************************************)
(* withNavigation, on PlatformStore                                        *)
(*                                                                         *)
(* A menu item is a function from its field names to their values.  The   *)
(* field ref stands for the object itself: <<id, n>> is the n-th object    *)
(* made for the item, and two items are the same object when their refs    *)
(* are equal.  A path is its sequence of segments, '/' the empty one.      *)
(***************************************************************************)
\* The current location after a navigation: its path and whether the URL
\* has a query string.
Urls ==
    {[path |-> <<"users">>, query |-> FALSE],
     [path |-> <<"users", "create">>, query |-> TRUE],
     [path |-> <<"dashboard">>, query |-> FALSE]}

\* The optional fields menu items are declared with.
ItemFields ==
    {[k \in {} |-> "none"],
     [expanded |-> "false"],
     [expanded |-> "true", routerLink |-> <<"users">>],
     [routerLink |-> <<"users", "create">>, queryParams |-> "{page:1}"],
     [routerLink |-> <<"dashboard">>],
     [routerLink |-> <<>>, queryParams |-> "{}",
      queryParamsHandling |-> "merge"]}
ParentFields == {f \in ItemFields : "queryParams" \notin DOMAIN f}

\* A declared menu item; children is <<>> for an item without items and
\* <<array>> for one with.
MenuItem(id, optional, children) ==
    [k \in {"id", "ref", "label"} \cup DOMAIN optional
            \cup (IF children = <<>> THEN {} ELSE {"items"}) |->
        IF k = "id" THEN id
        ELSE IF k = "ref" THEN <<id, 0>>
        ELSE IF k = "label" THEN "label"
        ELSE IF k = "items" THEN children[1]
        ELSE optional[k]]

\* The menus handed to setMenuItems: trees of up to three items in the
\* shapes of menuItemsConfig and deeper.
MenuTrees ==
    {<<MenuItem(1, f, <<>>)>> : f \in ItemFields}
    \cup {<<MenuItem(1, f, <<<<>>>>)>> : f \in ParentFields}
    \cup {<<MenuItem(1, f, <<<<MenuItem(2, g, <<>>)>>>>)>> :
            f \in ParentFields, g \in ItemFields}
    \cup {<<MenuItem(1, f, <<>>), MenuItem(2, g, <<<<MenuItem(3, h, <<>>)>>>>)>> :
            f \in ItemFields, g \in ParentFields, h \in ItemFields}
    \cup {<<MenuItem(1, f, <<<<MenuItem(2, g, <<>>), MenuItem(3, h, <<>>)>>>>)>> :
            f \in ParentFields, g \in ItemFields, h \in ItemFields}
    \cup {<<MenuItem(1, f, <<<<MenuItem(2, g, <<<<MenuItem(3, h, <<>>)>>>>)>>>>)>> :
            f \in ParentFields, g \in ParentFields, h \in ItemFields}

\* menuItem.routerLink: <<>> when undefined, else <<path>>.
routerLinkOf(menuItem) ==
    IF "routerLink" \in DOMAIN menuItem THEN <<menuItem.routerLink>> ELSE <<>>

isPrefix(p, q) == Len(p) <= Len(q) /\ SubSeq(q, 1, Len(p)) = p

\* matchesActivePath(router, path, paths): isActive with 'exact' or
\* 'subset' paths, query parameters ignored.
matchesActivePath(url, link, paths) ==
    /\ link # <<>>
    /\ IF paths = "exact" THEN link[1] = url.path
       ELSE isPrefix(link[1], url.path)

\* Mutant: the test for the empty path is left out.
resolveQueryPersistenceAnyPath(url, menuItem) ==
    LET link == routerLinkOf(menuItem)
    IN  IF "queryParamsHandling" \in DOMAIN menuItem
        THEN menuItem.queryParamsHandling
        ELSE IF "queryParams" \in DOMAIN menuItem /\ menuItem.queryParams # "{}"
        THEN "merge"
        ELSE IF ~matchesActivePath(url, link, "exact")
        THEN IF matchesActivePath(url, link, "subset") THEN "preserve"
             ELSE "empty"
        ELSE IF url.query THEN "preserve" ELSE "empty"

\* Navigation.resolveQueryPersistence(path, queryParams, queryParamsHandling)
resolveQueryPersistence(url, menuItem) ==
    LET link == routerLinkOf(menuItem)
    IN  IF "queryParamsHandling" \in DOMAIN menuItem
        THEN menuItem.queryParamsHandling
        ELSE IF "queryParams" \in DOMAIN menuItem /\ menuItem.queryParams # "{}"
        THEN "merge"
        ELSE IF ~matchesActivePath(url, link, "exact")
        THEN IF link = <<<<>>>> THEN "empty"
             ELSE IF matchesActivePath(url, link, "subset") THEN "preserve"
             ELSE "empty"
        ELSE IF url.query THEN "preserve" ELSE "empty"

\* { ...menuItem, <fields> }: a new object with the fields written over.
spread(menuItem, over) ==
    [k \in DOMAIN menuItem \cup DOMAIN over |->
        IF k = "ref" THEN <<menuItem.ref[1], menuItem.ref[2] + 1>>
        ELSE IF k \in DOMAIN over THEN over[k]
        ELSE menuItem[k]]

\* Mutant: the menu item's own fields are not carried over.
RECURSIVE evaluateMenuItemsBare(_, _)
evaluateMenuItemsBare(items, url) ==
    [i \in DOMAIN items |->
        LET menuItem == items[i]
            evaluatedMenuItems ==
                IF "items" \in DOMAIN menuItem
                THEN evaluateMenuItemsBare(menuItem.items, url) ELSE <<>>
            hasActiveState ==
                \/ \E j \in DOMAIN evaluatedMenuItems :
                      \/ evaluatedMenuItems[j].expanded = "true"
                      \/ matchesActivePath(url, routerLinkOf(items[i].items[j]),
                                           "exact")
                \/ matchesActivePath(url, routerLinkOf(menuItem), "exact")
        IN  spread([k \in {"ref"} |-> menuItem.ref],
                   [items |-> evaluatedMenuItems,
                    expanded |-> IF evaluatedMenuItems # <<>> /\ hasActiveState
                                 THEN "true" ELSE "false",
                    queryParams |-> IF "queryParams" \in DOMAIN menuItem
                                    THEN menuItem.queryParams ELSE "{}",
                    queryParamsHandling |->
                        resolveQueryPersistence(url, menuItem)])]

\* Mutant: only a child on the active route counts as an active descendant.
RECURSIVE evaluateMenuItemsShallow(_, _)
evaluateMenuItemsShallow(items, url) ==
    [i \in DOMAIN items |->
        LET menuItem == items[i]
            evaluatedMenuItems ==
                IF "items" \in DOMAIN menuItem
                THEN evaluateMenuItemsShallow(menuItem.items, url) ELSE <<>>
            hasActiveState ==
                \/ \E j \in DOMAIN evaluatedMenuItems :
                      matchesActivePath(url, routerLinkOf(evaluatedMenuItems[j]),
                                        "exact")
                \/ matchesActivePath(url, routerLinkOf(menuItem), "exact")
        IN  spread(menuItem,
                   [items |-> evaluatedMenuItems,
                    expanded |-> IF evaluatedMenuItems # <<>> /\ hasActiveState
                                 THEN "true" ELSE "false",
                    queryParams |-> IF "queryParams" \in DOMAIN menuItem
                                    THEN menuItem.queryParams ELSE "{}",
                    queryParamsHandling |->
                        resolveQueryPersistence(url, menuItem)])]

\* Navigation.evaluateMenuItems(menuItems)
RECURSIVE evaluateMenuItems(_, _)
evaluateMenuItems(items, url) ==
    [i \in DOMAIN items |->
        LET menuItem == items[i]
            evaluatedMenuItems ==
                IF "items" \in DOMAIN menuItem
                THEN evaluateMenuItems(menuItem.items, url) ELSE <<>>
            hasActiveDescendant ==
                \E j \in DOMAIN evaluatedMenuItems :
                    \/ evaluatedMenuItems[j].expanded = "true"
                    \/ matchesActivePath(url, routerLinkOf(evaluatedMenuItems[j]),
                                         "exact")
            isActivatedRoute ==
                matchesActivePath(url, routerLinkOf(menuItem), "exact")
            hasActiveState == hasActiveDescendant \/ isActivatedRoute
            requiresExpansion == evaluatedMenuItems # <<>> /\ hasActiveState
        IN  spread(menuItem,
                   [items |-> evaluatedMenuItems,
                    expanded |-> IF requiresExpansion THEN "true" ELSE "false",
                    queryParams |-> IF "queryParams" \in DOMAIN menuItem
                                    THEN menuItem.queryParams ELSE "{}",
                    queryParamsHandling |->
                        resolveQueryPersistence(url, menuItem)])]

\* !expanded
negated(expanded) == IF expanded = "true" THEN "false" ELSE "true"

\* Mutant: the items of the top level alone are looked at.
updateMenuExpansionTop(menuId, items) ==
    [i \in DOMAIN items |->
        LET menuItem == items[i]
            expanded == IF "expanded" \in DOMAIN menuItem
                        THEN menuItem.expanded ELSE "undefined"
        IN  spread(menuItem,
                   [items |-> IF "items" \in DOMAIN menuItem
                              THEN menuItem.items ELSE "undefined",
                    expanded |-> IF menuItem.id = menuId
                                 THEN negated(expanded) ELSE expanded])]

\* updateMenuExpansion(menuId, menuItems)
RECURSIVE updateMenuExpansion(_, _)
updateMenuExpansion(menuId, items) ==
    [i \in DOMAIN items |->
        LET menuItem == items[i]
            expanded == IF "expanded" \in DOMAIN menuItem
                        THEN menuItem.expanded ELSE "undefined"
            requiresExpansion == IF menuItem.id = menuId
                                 THEN negated(expanded) ELSE expanded
        IN  spread(menuItem,
                   [items |-> IF "items" \in DOMAIN menuItem
                              THEN updateMenuExpansion(menuId, menuItem.items)
                              ELSE "undefined",
                    expanded |-> requiresExpansion])]

\* setMenuItems(menuItems): the menuItems signal does not follow
\* _menuItems before the next navigation ends.
setMenuItems(tree) ==
    /\ declaredMenu' = tree
    /\ UNCHANGED <<navigationEnd, menuItems, toggles>>

\* A navigation ends: the menuItems signal is computed again.
NavigationEnd(url) ==
    /\ navigationEnd' = <<url>>
    /\ menuItems' = evaluateMenuItems(declaredMenu, url)
    /\ UNCHANGED <<declaredMenu, toggles>>

\* toggleMenuExpansion(menuId)
toggleMenuExpansion(menuId) ==
    /\ toggles < MaxChanges
    /\ toggles' = toggles + 1
    /\ menuItems' = updateMenuExpansion(menuId, menuItems)
    /\ UNCHANGED <<declaredMenu, navigationEnd>>

\* PlatformStore as constructed: no menu, no navigation has ended, and the
\* menuItems signal gives [].
MenuInit ==
    /\ declaredMenu = <<>>
    /\ navigationEnd = <<>>
    /\ menuItems = <<>>
    /\ toggles = 0

MenuIds == {1, 2, 3}

\* The access layout hands the menu over once.
SetMenuItems == declaredMenu = <<>> /\ \E tree \in MenuTrees : setMenuItems(tree)
Navigate == \E url \in Urls : NavigationEnd(url)
ToggleMenuExpansion == \E menuId \in MenuIds : toggleMenuExpansion(menuId)

\* The inputs of the query-persistence study: every routerLink, queryParams
\* and queryParamsHandling a menu item can be declared with ("undefined":
\* not declared; handling "empty" is ''), and locations with and without a
\* query string.
QueryLinks == {<<>>, <<"users">>, <<"users", "create">>, <<"dashboard">>}
QueryParams == {"undefined", "{}", "{page:1}"}
QueryHandlings == {"undefined", "empty", "merge", "preserve"}
QueryFields ==
    {[k \in (IF l = <<>> THEN {} ELSE {"routerLink"})
            \cup (IF p = "undefined" THEN {} ELSE {"queryParams"})
            \cup (IF h = "undefined" THEN {} ELSE {"queryParamsHandling"}) |->
        IF k = "routerLink" THEN l[1]
        ELSE IF k = "queryParams" THEN p ELSE h] :
        l \in {<<>>} \cup {<<q>> : q \in QueryLinks},
        p \in QueryParams, h \in QueryHandlings}
QueryUrls ==
    {[path |-> p, query |-> q] :
        p \in {<<>>, <<"users">>, <<"users", "create">>}, q \in BOOLEAN}

\* A menu of one item, and navigations to the locations of the study.
SetQueryItem ==
    declaredMenu = <<>>
        /\ \E f \in QueryFields : setMenuItems(<<MenuItem(1, f, <<>>)>>)
NavigateQuery == \E url \in QueryUrls : NavigationEnd(url)

(***************************************************************************)
(* ViewTransitionStore: handleTransition and the delayed reset.  Time      *)
(* passes in ticks of 175 ms.                                              *)
(***************************************************************************)
\* The delay handleTransition's cleanup passes: 350 ms.
transitionResetDelay == 2

\* The longest timeout a caller passes, and the timeouts: negative, zero,
\* positive.
MaxTimeout == 2
Timeouts == -1..MaxTimeout

\* The view transitions of one behaviour.
MaxTransitions == 2
TransitionIds == 1..MaxTransitions

TransitionModes == {"none", "cross-layout", "intra-layout"}

\* What resolveSnapshotData(route, 'layout') gives: null without route
\* data, undefined without a layout in it, or the layout.
Layouts == {"null", "undefined", "access", "platform"}

\* ViewTransitionStore's initialState.
viewInitialState == [_transitionMode |-> "none", _transitionTarget |-> "null"]

\* The ViewTransitionInfo handed over: whether from and to are there, the
\* layouts they resolve to, and whether the navigation targets the active
\* route.
TransitionInfos ==
    {[from |-> TRUE, to |-> TRUE, sameRoute |-> FALSE,
      sourceLayout |-> sl, targetLayout |-> tl] :
        sl \in Layouts, tl \in Layouts}
    \cup {[from |-> f, to |-> t, sameRoute |-> r,
           sourceLayout |-> "access", targetLayout |-> "platform"] :
            f \in BOOLEAN, t \in BOOLEAN, r \in BOOLEAN}

\* resolveTransitionContext(source, target)
resolveTransitionContext(sourceLayout, targetLayout) ==
    LET hasResolvedLayouts == Truthy(sourceLayout) /\ Truthy(targetLayout)
    IN  [mode |-> IF hasResolvedLayouts
                  THEN IF sourceLayout # targetLayout THEN "cross-layout"
                       ELSE "intra-layout"
                  ELSE "none",
         target |-> targetLayout]

\* A subscribed timer(timeout): the ticks left and the transition whose
\* cleanup asked for it (0: another caller).
ResetTimer(left, owner) == [left |-> left, owner |-> owner]

\* Mutant: mergeMap, which leaves the earlier timers subscribed.
mergeMapped(inner, timeout, owner) ==
    IF timeout < 0 THEN inner ELSE inner \cup {ResetTimer(timeout, owner)}

\* switchMap((timeout) => timeout < 0 ? EMPTY : timer(timeout)): the earlier
\* inner subscription is dropped for the new one.
switchMapped(inner, timeout, owner) ==
    IF timeout < 0 THEN {} ELSE {ResetTimer(timeout, owner)}

\* resetTransitionMode(timeout): what the call itself does.
resetTransitionMode(timeout, owner) ==
    /\ resetTimers' = switchMapped(resetTimers, timeout, owner)
    /\ lastTimeout' = timeout
    /\ sinceReset' = 0
    /\ resetFired' = FALSE

\* resetTransitionMode(timeout) called from outside the store.
resetTransitionModeCall(timeout) ==
    /\ resetTransitionMode(timeout, 0)
    /\ UNCHANGED <<viewState, transitionPhase, nextTransition, stateOwner>>

\* setTransitionMode(mode)
setTransitionMode(mode) ==
    /\ viewState' = patchState(viewState, [_transitionMode |-> mode])
    /\ stateOwner' = 0
    /\ UNCHANGED <<resetTimers, transitionPhase, nextTransition, lastTimeout,
                   sinceReset, resetFired>>

\* handleTransition(transitionInfo) for the view transition id.
handleTransition(id, info) ==
    /\ id = nextTransition
    /\ nextTransition' = id + 1
    /\ resetTransitionMode(-1, 0)
    /\ IF ~info.from \/ ~info.to \/ info.sameRoute
       THEN /\ viewState' = patchState(viewState, viewInitialState)
            /\ stateOwner' = 0
            /\ transitionPhase' = [transitionPhase EXCEPT ![id] = "dropped"]
       ELSE LET transitioncontext ==
                    resolveTransitionContext(info.sourceLayout,
                                             info.targetLayout)
            IN  /\ viewState' =
                       patchState(viewState,
                           [_transitionMode |-> transitioncontext.mode,
                            _transitionTarget |-> transitioncontext.target])
                /\ stateOwner' = id
                /\ transitionPhase' =
                       [transitionPhase EXCEPT ![id] = "running"]

\* transition.finished settles: the finally callback requests a frame.
transitionFinished(id) ==
    /\ transitionPhase[id] = "running"
    /\ transitionPhase' = [transitionPhase EXCEPT ![id] = "finished"]
    /\ UNCHANGED <<viewState, resetTimers, nextTransition, stateOwner,
                   lastTimeout, sinceReset, resetFired>>

\* The frame callback: resetTransitionMode(350).
animationFrame(id) ==
    /\ transitionPhase[id] = "finished"
    /\ transitionPhase' = [transitionPhase EXCEPT ![id] = "done"]
    /\ resetTransitionMode(transitionResetDelay, id)
    /\ UNCHANGED <<viewState, nextTransition, stateOwner>>

\* A timer emits: tap(() => patchState(store, initialState)).
FireReset ==
    \E tm \in resetTimers :
        /\ tm.left = 0
        /\ resetTimers' = resetTimers \ {tm}
        /\ viewState' = patchState(viewState, viewInitialState)
        /\ stateOwner' = 0
        /\ resetFired' = TRUE
        /\ UNCHANGED <<transitionPhase, nextTransition, lastTimeout,
                       sinceReset>>

\* A tick passes once every due timer has emitted.
ViewTick ==
    /\ \A tm \in resetTimers : tm.left > 0
    /\ resetTimers # {} \/ sinceReset <= MaxTimeout
    /\ resetTimers' = {ResetTimer(tm.left - 1, tm.owner) : tm \in resetTimers}
    /\ sinceReset' = IF sinceReset > MaxTimeout THEN sinceReset
                     ELSE sinceReset + 1
    /\ UNCHANGED <<viewState, transitionPhase, nextTransition, stateOwner,
                   lastTimeout, resetFired>>

\* ViewTransitionStore as constructed.
ViewInit ==
    /\ viewState = viewInitialState
    /\ resetTimers = {}
    /\ transitionPhase = [id \in TransitionIds |-> "new"]
    /\ nextTransition = 1
    /\ stateOwner = 0
    /\ lastTimeout = -1
    /\ sinceReset = MaxTimeout + 1
    /\ resetFired = FALSE

HandleTransition ==
    \E id \in TransitionIds, info \in TransitionInfos :
        handleTransition(id, info)
TransitionFinished == \E id \in TransitionIds : transitionFinished(id)
AnimationFrame == \E id \in TransitionIds : animationFrame(id)
ResetTransitionMode == \E timeout \in Timeouts : resetTransitionModeCall(timeout)
SetTransitionMode == \E mode \in TransitionModes : setTransitionMode(mode)

(***************************************************************************)
(* Router state: the signals withRouterState and the RouterState service   *)
(* derive from router.events.                                              *)
(***************************************************************************)
\* The router events of one behaviour, and the times the router activates
\* a new state.
MaxRouterEvents == 4
MaxActivations == 2

\* The kinds of router event: the four the signals look at and three of the
\* others.
EndKinds == {"NavigationEnd", "NavigationError", "NavigationCancel"}
NavigationKinds == {"NavigationStart"} \cup EndKinds
EventKinds ==
    NavigationKinds \cup {"RoutesRecognized", "NavigationSkipped", "Scroll"}

\* resolveEvent(target, source): the event when it is an instance of one of
\* the constructors, else null (<<>>).
resolveEvent(target, source) ==
    IF source.kind \in target THEN <<source>> ELSE <<>>

\* The reducer of isNavigating's scan.
scanReducerNoCancel(acc, event) ==
    IF event.kind = "NavigationStart" THEN TRUE
    ELSE IF event.kind = "NavigationEnd" THEN FALSE
    ELSE IF event.kind = "NavigationError" THEN FALSE
    ELSE acc
scanReducer(acc, event) ==
    IF event.kind = "NavigationStart" THEN TRUE
    ELSE IF event.kind = "NavigationEnd" THEN FALSE
    ELSE IF event.kind = "NavigationError" THEN FALSE
    ELSE IF event.kind = "NavigationCancel" THEN FALSE
    ELSE acc

\* distinctUntilChanged: the first value passes, later ones when they differ
\* from the one that passed last.
distinctPasses(last, value) == value \notin last

\* router.events emits an event: every subscribed pipeline runs on it.
routerEmits(kind) ==
    LET id == IF routerEvent = <<>> THEN 1 ELSE routerEvent[1].id + 1
        event == [id |-> id, kind |-> kind]
        acc == scanReducer(scanState, event)
        featurePasses == distinctPasses(distinctLast.feature, acc)
        value == resolveEvent({"NavigationStart"}, event) # <<>>
        servicePasses ==
            /\ resolveEvent(NavigationKinds, event) # <<>>
            /\ distinctPasses(distinctLast.service, value)
        isEnd == resolveEvent({"NavigationEnd"}, event) # <<>>
    IN  /\ id <= MaxRouterEvents
        /\ routerEvent' = <<event>>
        /\ scanState' = acc
        /\ isNavigating' = IF featurePasses THEN acc ELSE isNavigating
        /\ serviceIsNavigating' =
               IF servicePasses THEN value ELSE serviceIsNavigating
        /\ distinctLast' =
               [feature |-> IF featurePasses THEN {acc}
                            ELSE distinctLast.feature,
                service |-> IF servicePasses THEN {value}
                            ELSE distinctLast.service]
        /\ navigationEndSignal' =
               IF isEnd THEN <<[event |-> event, state |-> routerState]>>
               ELSE navigationEndSignal
        /\ routerSnapshot' = IF isEnd THEN routerState ELSE routerSnapshot
        /\ emittedKinds' = emittedKinds \cup {kind}
        /\ UNCHANGED routerState

\* The router activates a new state: router.routerState.snapshot changes.
routerActivates ==
    /\ routerState < MaxActivations
    /\ routerState' = routerState + 1
    /\ UNCHANGED <<routerEvent, scanState, distinctLast, isNavigating,
                   serviceIsNavigating, navigationEndSignal, routerSnapshot,
                   emittedKinds>>

\* The signals as created: toSignal's initial values and startWith.
RouterInit ==
    /\ routerState = 0
    /\ routerEvent = <<>>
    /\ scanState = FALSE
    /\ distinctLast = [feature |-> {}, service |-> {}]
    /\ isNavigating = FALSE
    /\ serviceIsNavigating = FALSE
    /\ navigationEndSignal = <<>>
    /\ routerSnapshot = 0
    /\ emittedKinds = {}

RouterEmits == \E kind \in EventKinds : routerEmits(kind)

(***************************************************************************)
(* The store accessors getStateSource and setResetState, called with any   *)
(* value.  The store composed with withResetState is the one of the        *)
(* withResetState model above.                                             *)
(***************************************************************************)
\* The values a caller passes as the store: primitives, objects that are
\* no stores, a signal store without withResetState (LayoutStore) and the
\* store with it.
Primitives == {"null", "undefined", "0", "42", "''", "'store'"}
StoreValues ==
    Primitives \cup {"object", "function", "symbolObject", "fakeMarker",
                     "memberObject", "signalStore", "resetStore"}

\* !store
notTruthy(store) == store \in {"null", "undefined", "0", "''"}

\* lodash isObject: objects and functions.
isObject(store) == store \notin Primitives

\* Object.getOwnPropertySymbols(store): each symbol with its description
\* and whether it is the STATE_SOURCE symbol of @ngrx/signals.
ownPropertySymbols(store) ==
    CASE store \in {"signalStore", "resetStore"}
             -> {[description |-> "STATE_SOURCE", ngrx |-> TRUE]}
      [] store = "fakeMarker"
             -> {[description |-> "STATE_SOURCE", ngrx |-> FALSE]}
      [] store = "symbolObject"
             -> {[description |-> "other", ngrx |-> FALSE]}
      [] OTHER -> {}

\* '_setInitialState' in store, for an object.
hasSetInitialState(store) == store \in {"memberObject", "resetStore"}

isStateSource(store) ==
    IF notTruthy(store) \/ ~isObject(store) THEN FALSE
    ELSE \E symbol \in ownPropertySymbols(store) :
             symbol.description = "STATE_SOURCE"

\* The outcomes of a call: an error thrown, or a value returned.
Throws(error) == [threw |-> TRUE, value |-> error]
Returns(value) == [threw |-> FALSE, value |-> value]

\* getState of @ngrx/signals reads store[STATE_SOURCE]: a TypeError on an
\* object without that symbol.
getState(store) ==
    IF \E symbol \in ownPropertySymbols(store) : symbol.ngrx
    THEN Returns(IF store = "resetStore" THEN getStateSource(fields)
                 ELSE layoutInitialState)
    ELSE Throws("TypeError")

\* getStateSource(store), guard included.
getStateSourceCall(store) ==
    IF isStateSource(store) THEN getState(store)
    ELSE Throws("Error: Cannot get state")

\* setResetState(store, state): the in operator throws a TypeError on a
\* value that is no object.
setResetStateSilent(store, state) ==
    IF ~isObject(store) THEN Throws("TypeError")
    ELSE Returns("undefined")
setResetStateCall(store, state) ==
    IF ~isObject(store) THEN Throws("TypeError")
    ELSE IF hasSetInitialState(store) THEN Returns("undefined")
    ELSE Throws("Error: Cannot set reset state")

\* The snapshots a caller registers: Partial<TStore<TState>>.
ResetStates == [PublicFields -> FieldValues]

GetStateSource ==
    \E store \in StoreValues :
        /\ accessed' = <<[fn |-> "getStateSource", store |-> store,
                           outcome |-> getStateSourceCall(store)]>>
        /\ UNCHANGED resetVars

SetResetState ==
    \E store \in StoreValues, state \in ResetStates :
        LET outcome == setResetStateCall(store, state)
        IN  /\ accessed' = <<[fn |-> "setResetState", store |-> store,
                               state |-> state, outcome |-> outcome]>>
            /\ initialState' =
                   IF ~outcome.threw /\ store = "resetStore" THEN state
                   ELSE initialState
            /\ UNCHANGED <<fields, resetPhase, stateAtInit, atReset>>

AccInit == accessed = <<>>

(***************************************************************************)
(* AuthStore: the rxMethods over withRequestStatus.  signIn patches the    *)
(* session; signOut stands for the three methods that settle with a        *)
(* message only (signOut, forgotPassword, resetPassword).                  *)
(***************************************************************************)
Methods == {"signIn", "signOut"}
eventOf(method) == IF method = "signIn" THEN "SIGN_IN" ELSE "SIGN_OUT"

\* The results of an operation (dataset and message) and the message
\* property of an error: absent, '' or a text.
Datasets == {"s1", "s2"}
ResultMessages == {"ok"}
ErrorMessages == {"undefined", "empty", "e1"}

\* The latest step gets a sequence bit, so a step repeated is seen.
AuthStep(method, kind, value, message) ==
    [method |-> method, kind |-> kind, value |-> value, message |-> message,
     bit |-> IF authStep = <<>> THEN 0 ELSE 1 - authStep[1].bit]

\* Where the error of the operation is caught.  Inside switchMap's inner
\* pipe the catchError replaces the failed operation by EMPTY and the outer
\* stream goes on; on the outer pipe EMPTY would complete the rxMethod.
caughtOutside(method) == [subscribed |-> FALSE, uncaught |-> FALSE]
caughtInside(method) == [subscribed |-> TRUE, uncaught |-> FALSE]

\* A call of the method: tap(markPending), then switchMap to the operation,
\* which unsubscribes from the operation of an earlier call.
callMethod(method) ==
    /\ subscribed[method]
    /\ markPending(eventOf(method))
    /\ inFlight' = [inFlight EXCEPT ![method] = TRUE]
    /\ authStep' = <<AuthStep(method, "call", "none", "none")>>
    /\ UNCHANGED <<subscribed, uncaught>>

\* The operation emits its result: tap(markFulfilled).
operationSucceeds(method, dataset, message) ==
    /\ inFlight[method]
    /\ IF method = "signIn"
       THEN markFulfilledExtras("SIGN_IN", dataset, message,
                                [k \in {"session"} |-> dataset])
       ELSE markFulfilledExtras(eventOf(method), "undefined", message,
                                NoExtras)
    /\ inFlight' = [inFlight EXCEPT ![method] = FALSE]
    /\ authStep' = <<AuthStep(method, "success",
                              IF method = "signIn" THEN dataset ELSE "none",
                              message)>>
    /\ UNCHANGED <<subscribed, uncaught>>

\* The operation fails: catchError(markRejected; EMPTY).
operationFails(method, message) ==
    /\ inFlight[method]
    /\ markRejectedExtras(eventOf(method), "undefined", message, NoExtras)
    /\ inFlight' = [inFlight EXCEPT ![method] = FALSE]
    /\ subscribed' =
           [subscribed EXCEPT ![method] = caughtInside(method).subscribed]
    /\ uncaught' = (uncaught \/ caughtInside(method).uncaught)
    /\ authStep' = <<AuthStep(method, "failure", "none", message)>>

AuthInit ==
    /\ inFlight = [method \in Methods |-> FALSE]
    /\ subscribed = [method \in Methods |-> TRUE]
    /\ uncaught = FALSE
    /\ authStep = <<>>

CallMethod == \E method \in Methods : callMethod(method)
OperationSucceeds ==
    \E method \in Methods, dataset \in Datasets, message \in ResultMessages :
        operationSucceeds(method, dataset, message)
OperationFails ==
    \E method \in Methods, message \in ErrorMessages :
        operationFails(method, message)

(***************************************************************************)
(* Navigation.resolveBreadcrumbs.  A path string is the sequence of its    *)
(* segments: '/' is <<>>, '/users/create' is <<"users", "create">> and     *)
(* '/users/' is <<"users", "">>.                                           *)
(***************************************************************************)
\* The levels below the root in one snapshot.
MaxDepth == 2

\* route.data.breadcrumb: not declared, a value that is neither object nor
\* string, a string, or an object with its label ('' or a text) and its
\* skip flag.
Breadcrumb(kind, label, skip) == [kind |-> kind, label |-> label, skip |-> skip]
NoBreadcrumb == Breadcrumb("undefined", "undefined", "undefined")
BreadcrumbsAt(text) ==
    {NoBreadcrumb,
     Breadcrumb("other", "undefined", "undefined"),
     Breadcrumb("string", text, "undefined"),
     Breadcrumb("object", text, "true"),
     Breadcrumb("object", "empty", "false")}

\* The label texts declared at a depth: on the route and on its home child.
LabelAt(depth) ==
    CASE depth = 0 -> "Root"
      [] depth = 1 -> "Users"
      [] depth = 2 -> "Create User"
      [] OTHER -> "Deeper"
HomeLabelAt(depth) ==
    CASE depth = 0 -> "Home"
      [] depth = 1 -> "Users Home"
      [] depth = 2 -> "Create Home"
      [] OTHER -> "Deeper Home"

\* A level: its url segments, its breadcrumb declaration, the path of the
\* child route declared with breadcrumb.home ("none": no such child; "nil":
\* the child has no path), the label of that child and the outlets of the
\* level's children in the snapshot.
Level(url, breadcrumb, homePath, homeLabel, children) ==
    [url |-> url, breadcrumb |-> breadcrumb, homePath |-> homePath,
     homeLabel |-> homeLabel, children |-> children]
UrlsAt(depth) ==
    CASE depth = 0 -> {<<>>}
      [] depth = 1 -> {<<>>, <<"users">>, <<"home">>}
      [] OTHER -> {<<>>, <<"create">>, <<"home">>}
HomePaths == {"none", "empty", "home"}
LevelsAt(depth, last) ==
    {Level(url, breadcrumb, homePath, HomeLabelAt(depth), children) :
        url \in UrlsAt(depth),
        breadcrumb \in IF depth = 0 THEN {NoBreadcrumb}
                       ELSE BreadcrumbsAt(LabelAt(depth)),
        homePath \in IF depth = 0 THEN HomePaths \cup {"nil"} ELSE HomePaths,
        children \in
            CASE depth = 0 /\ last -> {<<>>, <<"aux">>}
              [] depth = 0 /\ ~last -> {<<"primary">>, <<"aux", "primary">>}
              [] depth > 0 /\ last -> {<<>>}
              [] OTHER -> {<<"primary">>}}

\* The child in an auxiliary outlet: a leaf with a breadcrumb of its own.
AuxLevel ==
    Level(<<"aux">>, Breadcrumb("string", "Aux", "undefined"), "none",
          "none", <<>>)

RECURSIVE SnapshotsFrom(_, _)
SnapshotsFrom(depth, levels) ==
    IF levels = 0 THEN {<<level>> : level \in LevelsAt(depth, TRUE)}
    ELSE {<<level>> \o rest :
              level \in LevelsAt(depth, FALSE),
              rest \in SnapshotsFrom(depth + 1, levels - 1)}
Snapshots == UNION {SnapshotsFrom(0, levels) : levels \in 0..MaxDepth}

\* A route of the snapshot: 0 is null, a positive number the level of the
\* chain, -1 the auxiliary child.
RouteAt(state, route) == IF route = -1 THEN AuxLevel ELSE state[route]

\* resolvePrimaryRoute(route): the first child in the primary outlet.
resolveFirstRoute(state, route) ==
    LET children == RouteAt(state, route).children
    IN  IF children = <<>> THEN 0
        ELSE IF children[1] = "primary" THEN route + 1
        ELSE -1
resolvePrimaryRoute(state, route) ==
    LET children == RouteAt(state, route).children
    IN  IF \E c \in 1..Len(children) : children[c] = "primary"
        THEN route + 1
        ELSE 0

\* resolveBreadcrumbContext(path, route): "null" metadata has kind "null".
resolveBreadcrumbContext(path, route) ==
    LET routeBreadcrumb == route.breadcrumb
        own == IF routeBreadcrumb.kind = "object" THEN routeBreadcrumb
               ELSE IF routeBreadcrumb.kind = "string"
                    THEN Breadcrumb("object", routeBreadcrumb.label,
                                    "undefined")
               ELSE Breadcrumb("null", "undefined", "undefined")
        homeMeta == Breadcrumb("object", route.homeLabel, "undefined")
    IN  IF own.kind = "null" /\ route.homePath # "none"
        THEN [breadcrumbMeta |-> homeMeta,
              breadcrumbPath |->
                  IF route.homePath = "nil" THEN path
                  ELSE IF path = <<>>
                       THEN IF route.homePath = "empty" THEN <<>>
                            ELSE <<route.homePath>>
                  ELSE path \o <<IF route.homePath = "empty" THEN ""
                                 ELSE route.homePath>>]
        ELSE [breadcrumbMeta |-> own, breadcrumbPath |-> path]

\* One breadcrumb: its label, its routerLink and its home flag.
BreadcrumbItem(meta, breadcrumbPath, isHome) ==
    [label |-> meta.label, routerLink |-> breadcrumbPath, home |-> isHome]

\* The while loop of resolveBreadcrumbs from the route on.
RECURSIVE resolveFrom(_, _, _, _)
resolveFrom(state, route, pathAccumulator, list) ==
    IF route = 0 THEN list
    ELSE LET routeSnapshot == RouteAt(state, route)
             compositeSegments == pathAccumulator \o routeSnapshot.url
             context == resolveBreadcrumbContext(compositeSegments,
                                                 routeSnapshot)
             meta == context.breadcrumbMeta
             hasExistingBreadcrumb ==
                 \E b \in 1..Len(list) :
                     list[b].routerLink = context.breadcrumbPath
             added ==
                 IF /\ meta.kind # "null"
                    /\ meta.skip # "true"
                    /\ ~hasExistingBreadcrumb
                    /\ meta.label \notin {"undefined", "empty"}
                 THEN Append(list,
                             BreadcrumbItem(meta, context.breadcrumbPath,
                                 routeSnapshot.breadcrumb.kind
                                     \notin {"object", "string"}))
                 ELSE list
         IN  resolveFrom(state, resolvePrimaryRoute(state, route),
                         compositeSegments, added)

\* resolveBreadcrumbs(state), from state.root.
resolveBreadcrumbs(state) == resolveFrom(state, 1, <<>>, <<>>)

ResolveBreadcrumbs ==
    /\ ~breadcrumbs.done
    /\ breadcrumbs' = [done |-> TRUE, list |-> resolveBreadcrumbs(navSnapshot)]
    /\ UNCHANGED navSnapshot

NavInit ==
    /\ navSnapshot \in Snapshots
    /\ breadcrumbs = [done |-> FALSE, list |-> <<>>]
NavIdle ==
    /\ navSnapshot = <<Level(<<>>, NoBreadcrumb, "none", "none", <<>>)>>
    /\ breadcrumbs = [done |-> FALSE, list |-> <<>>]

(***************************************************************************)
(* Specifications                                                          *)
(***************************************************************************)
\* The features a specification leaves out stay as constructed.
ResetIdle == ResetInit /\ fields = [k \in FieldNames |-> "v0"]
LogIdle == LogInit /\ loggerOptions = CommonLoggerOptions
MenuIdle == MenuInit
SvcIdle == ViewInit /\ RouterInit /\ AccInit /\ AuthInit /\ NavIdle
SvcButNav == ViewInit /\ RouterInit /\ AccInit /\ AuthInit
ViewFrame ==
    UNCHANGED <<reqVars, resetVars, tabVars, logVars, menuVars, routerVars,
                accVars, authVars, navVars>>
RouterFrame ==
    UNCHANGED <<reqVars, resetVars, tabVars, logVars, menuVars, viewVars,
                accVars, authVars, navVars>>
AccFrame ==
    UNCHANGED <<reqVars, tabVars, logVars, menuVars, viewVars, routerVars,
                authVars, navVars>>
AuthFrame ==
    UNCHANGED <<resetVars, tabVars, logVars, menuVars, viewVars, routerVars,
                accVars, navVars>>
NavFrame ==
    UNCHANGED <<reqVars, resetVars, tabVars, logVars, menuVars, viewVars,
                routerVars, accVars, authVars>>
ReqFrame == UNCHANGED <<resetVars, tabVars, logVars, menuVars, svcVars>>
ResetFrame == UNCHANGED <<reqVars, tabVars, logVars, menuVars, svcVars>>
TabFrame == UNCHANGED <<reqVars, resetVars, logVars, menuVars, svcVars>>
LogFrame == UNCHANGED <<reqVars, resetVars, tabVars, menuVars, svcVars>>
MenuFrame == UNCHANGED <<reqVars, resetVars, tabVars, logVars, svcVars>>

\* withRequestStatus alone: two keys and their timers.
InitReq == ReqInit /\ ResetIdle /\ TabInit /\ LogIdle /\ MenuInit /\ SvcIdle
NextReq ==
    \/ MarkPending /\ ReqFrame
    \/ MarkFulfilled /\ ReqFrame
    \/ MarkRejected /\ ReqFrame
    \/ RunEffect /\ ReqFrame
    \/ FireTimer /\ ReqFrame
    \/ Tick /\ ReqFrame
    \/ Destroy /\ ReqFrame
SpecReq == InitReq /\ [][NextReq]_vars

\* withRequestStatus alone: one key and every kind of payload.
InitPayload == ReqInit /\ ResetIdle /\ TabInit /\ LogIdle /\ MenuInit /\ SvcIdle
NextPayload ==
    \/ MarkPendingOne /\ ReqFrame
    \/ MarkFulfilledWith /\ ReqFrame
    \/ MarkRejectedWith /\ ReqFrame
    \/ MarkFulfilledExtras /\ ReqFrame
    \/ MarkRejectedExtras /\ ReqFrame
    \/ RunEffect /\ ReqFrame
    \/ FireTimer /\ ReqFrame
    \/ Tick /\ ReqFrame
    \/ Destroy /\ ReqFrame
SpecPayload == InitPayload /\ [][NextPayload]_vars

\* withRequestStatus alone: a declared and an undeclared key.
InitKeys == ReqInit /\ ResetIdle /\ TabInit /\ LogIdle /\ MenuInit /\ SvcIdle
NextKeys ==
    \/ MarkPendingAny /\ ReqFrame
    \/ MarkFulfilledAny /\ ReqFrame
    \/ MarkRejectedAny /\ ReqFrame
    \/ RunEffect /\ ReqFrame
    \/ FireTimer /\ ReqFrame
    \/ Tick /\ ReqFrame
    \/ Destroy /\ ReqFrame
SpecKeys == InitKeys /\ [][NextKeys]_vars

\* withResetState alone.
InitReset == ReqInit /\ ResetInit /\ TabInit /\ LogIdle /\ MenuInit /\ SvcIdle
NextReset ==
    \/ ResetOnInit /\ ResetFrame
    \/ PatchField /\ ResetFrame
    \/ ResetState /\ ResetFrame
SpecReset == InitReset /\ [][NextReset]_vars

\* LayoutStore with withStorage in the tabs; an effect flush and the
\* delivery of a message in flight are not postponed forever.
InitTabs == ReqInit /\ ResetIdle /\ TabInit /\ LogIdle /\ MenuInit /\ SvcIdle
NextTabs ==
    \/ OpenTab /\ TabFrame
    \/ CloseTab /\ TabFrame
    \/ SetAccessLayoutMode /\ TabFrame
    \/ SetPlatformLayoutMode /\ TabFrame
    \/ SetNavigationDrawerVisibility /\ TabFrame
    \/ ToggleNavigationDrawerVisibility /\ TabFrame
    \/ TogglePlatformLayoutMode /\ TabFrame
    \/ PersistEffect /\ TabFrame
    \/ OnMessage /\ TabFrame
SpecTabs ==
    /\ InitTabs
    /\ [][NextTabs]_vars
    /\ \A t \in Tabs :
          /\ WF_vars(RunPersist(t) /\ TabFrame)
          /\ WF_vars(Deliver(t) /\ TabFrame)

\* withStorage without broadcast, over the round-trip configurations:
\* instances persist, are destroyed and are created again on the same key.
InitRoundTrip == ReqInit /\ ResetIdle /\ RoundTripInit /\ LogIdle /\ MenuInit /\ SvcIdle
NextRoundTrip ==
    \/ OpenTab /\ TabFrame
    \/ CloseTab /\ TabFrame
    \/ SetAccessLayoutMode /\ TabFrame
    \/ SetPlatformLayoutMode /\ TabFrame
    \/ SetNavigationDrawerVisibility /\ TabFrame
    \/ ToggleNavigationDrawerVisibility /\ TabFrame
    \/ TogglePlatformLayoutMode /\ TabFrame
    \/ PersistEffect /\ TabFrame
SpecRoundTrip == InitRoundTrip /\ [][NextRoundTrip]_vars

\* withStorage on both platforms, with callees that throw and with strings
\* from elsewhere in the storage and on the channel.
InitPersist == ReqInit /\ ResetIdle /\ PersistInit /\ LogIdle /\ MenuInit /\ SvcIdle
NextPersist ==
    \/ OnInit /\ TabFrame
    \/ CloseTab /\ TabFrame
    \/ SetPlatformLayoutMode /\ TabFrame
    \/ PersistEffectOrThrow /\ TabFrame
    \/ OnMessageOrThrow /\ TabFrame
    \/ CorruptItem /\ TabFrame
    \/ CorruptMessage /\ TabFrame
SpecPersist == InitPersist /\ [][NextPersist]_vars

\* withLogger alone, on CommonStore with its methods.
InitLog == ReqInit /\ ResetIdle /\ TabInit /\ LogInit /\ MenuInit /\ SvcIdle
NextLog ==
    \/ LoadCountries /\ LogFrame
    \/ SetPageTitleSegment /\ LogFrame
    \/ SetSilentNavigation /\ LogFrame
    \/ LogEffect /\ LogFrame
SpecLog == InitLog /\ [][NextLog]_vars

\* withNavigation alone, on PlatformStore.
InitMenu == ReqInit /\ ResetIdle /\ TabInit /\ LogIdle /\ MenuInit /\ SvcIdle
NextMenu ==
    \/ SetMenuItems /\ MenuFrame
    \/ Navigate /\ MenuFrame
    \/ ToggleMenuExpansion /\ MenuFrame
SpecMenu == InitMenu /\ [][NextMenu]_vars

\* Navigation.resolveQueryPersistence on one menu item, over the inputs of
\* the query-persistence study.
InitQuery == ReqInit /\ ResetIdle /\ TabInit /\ LogIdle /\ MenuInit /\ SvcIdle
NextQuery ==
    \/ SetQueryItem /\ MenuFrame
    \/ NavigateQuery /\ MenuFrame
SpecQuery == InitQuery /\ [][NextQuery]_vars

\* ViewTransitionStore: view transitions, their cleanups and callers of
\* resetTransitionMode and setTransitionMode.
InitTransition ==
    ReqInit /\ ResetIdle /\ TabInit /\ LogIdle /\ MenuIdle /\ SvcIdle
NextTransition ==
    \/ HandleTransition /\ ViewFrame
    \/ TransitionFinished /\ ViewFrame
    \/ AnimationFrame /\ ViewFrame
    \/ ResetTransitionMode /\ ViewFrame
    \/ SetTransitionMode /\ ViewFrame
    \/ FireReset /\ ViewFrame
    \/ ViewTick /\ ViewFrame
SpecTransition == InitTransition /\ [][NextTransition]_vars

\* The router emits any sequence of events and activates states in between.
InitRouter ==
    ReqInit /\ ResetIdle /\ TabInit /\ LogIdle /\ MenuIdle /\ SvcIdle
NextRouter ==
    \/ RouterEmits /\ RouterFrame
    \/ routerActivates /\ RouterFrame
SpecRouter == InitRouter /\ [][NextRouter]_vars

\* The withResetState store in use, with the accessors called on any value.
InitAccess ==
    ReqInit /\ ResetIdle /\ TabInit /\ LogIdle /\ MenuIdle /\ SvcIdle
NextAccess ==
    \/ ResetOnInit /\ ResetFrame
    \/ PatchField /\ ResetFrame
    \/ ResetState /\ ResetFrame
    \/ GetStateSource /\ AccFrame
    \/ SetResetState /\ AccFrame
SpecAccess == InitAccess /\ [][NextAccess]_vars

\* AuthStore: calls, results and failures of the operations, and the
\* auto-reset of withRequestStatus.
InitAuth ==
    ReqInit /\ ResetIdle /\ TabInit /\ LogIdle /\ MenuIdle /\ SvcIdle
NextAuth ==
    \/ CallMethod /\ AuthFrame
    \/ OperationSucceeds /\ AuthFrame
    \/ OperationFails /\ AuthFrame
    \/ RunEffect /\ ReqFrame
    \/ FireTimer /\ ReqFrame
    \/ Tick /\ ReqFrame
SpecAuth == InitAuth /\ [][NextAuth]_vars

\* resolveBreadcrumbs applied to every snapshot.
InitBreadcrumbs ==
    ReqInit /\ ResetIdle /\ TabInit /\ LogIdle /\ MenuIdle /\ SvcButNav
        /\ NavInit
NextBreadcrumbs ==
    \/ ResolveBreadcrumbs /\ NavFrame
SpecBreadcrumbs == InitBreadcrumbs /\ [][NextBreadcrumbs]_vars

(***************************************************************************)
(* Properties of withRequestStatus (SpecReq, SpecPayload)                  *)
(***************************************************************************)
\* The effect is flushed and no due timer waits to run.
Stable == ~effectPending /\ NoTimerDue

\* The snapshot of k is the idle one.
IdleSnapshot(k) ==
    /\ requestStatus(k).status = "idle"
    /\ requestStatus(k).isIdle
    /\ requestStatus(k).message = "null"
    /\ requestStatus(k).data = "null"

\* C1, first part: markPending(k) leaves the snapshot of k pending.
C1_AfterPending ==
    \A k \in Events :
        markPending(k) =>
            /\ requestStatus(k)'.status = "pending"
            /\ requestStatus(k)'.isPending

\* C1, second part: markFulfilled(k, {data: d, message: m}) with non-empty
\* d and m leaves the snapshot of k fulfilled with data d and message m.
C1_AfterFulfilled ==
    \A k \in Events, d \in DataInputs, m \in MessageInputs :
        (Truthy(d) /\ Truthy(m) /\ markFulfilled(k, d, m)) =>
            /\ requestStatus(k)'.status = "fulfilled"
            /\ requestStatus(k)'.isFulfilled
            /\ ~requestStatus(k)'.isPending
            /\ requestStatus(k)'.data = d
            /\ requestStatus(k)'.message = m

\* C1, third part: resetDelay after the last mark call no key is fulfilled
\* any more, and a key the timer has reset shows the idle snapshot.
C1_AfterDelay ==
    \A k \in Events :
        /\ (requests[k].status = "fulfilled" /\ Stable) => sinceMark < resetDelay
        /\ resetAge[k] # -1 => IdleSnapshot(k)

\* C1: request lifecycle.  After markPending(k) the snapshot of k is pending
\* with isPending; after a following markFulfilled(k, {data: d, message: m})
\* with non-empty d and m it is fulfilled with isFulfilled, not isPending,
\* data d and message m; and with no further mark call, once resetDelay has
\* elapsed, the snapshot is idle with isIdle, message null and data null.
C1_Lifecycle ==
    /\ [][C1_AfterPending /\ C1_AfterFulfilled]_vars
    /\ []C1_AfterDelay

\* C2: markPending(k) on a settled key cancels the key's auto-reset timer:
\* k stays pending until the next settle call for k, and the timer of the
\* earlier settle never sets it idle.
C2_PendingNotReset ==
    [][\A k \in Events :
          (requests[k].status = "pending" /\ ~destroyed')
              => requests'[k].status # "idle"]_vars

\* C3: timer replace-not-stack.  After a second settle call for k that came
\* before the first one's auto-reset fired, exactly one auto-reset timer is
\* pending for k, and k returns to idle resetDelay after the second call.
C3_ReplaceNotStack ==
    \A k \in Events :
        doubleSettle[k] =>
            /\ (~effectPending /\ requests[k].status \in Settled)
                   => Cardinality({t \in timers : t.event = k}) = 1
            /\ (Stable /\ requests[k].status \in Settled)
                   => sinceSettle[k] < resetDelay
            /\ resetAge[k] # -1 => resetAge[k] = resetDelay

\* C8: the data of k's entity changes only through a settle call for k
\* whose payload provides data, or through the auto-reset: markPending(k)
\* and a settle call without data leave the stored data in place.
C8_DataFrame ==
    [][\A k \in Events :
          /\ markPending(k) =>
                /\ requests'[k].status = "pending"
                /\ requests'[k].message = "null"
                /\ requests'[k].data = requests[k].data
          /\ \A m \in MessageInputs :
                (markFulfilled(k, "undefined", m) \/ markRejected(k, "undefined", m))
                    => requests'[k].data = requests[k].data]_vars

C10_DataKept ==
    [][\A k \in Events, d \in DataInputs \ {"undefined", "null"},
         m \in MessageInputs :
          (markFulfilled(k, d, m) \/ markRejected(k, d, m))
              => requestStatus(k)'.data = d]_vars

\* C11: a settle call whose payload carries extra fields patches the status
\* of k and the extra fields that are state keys in one step, adds no key
\* to the state, and no step changes the store's own state without
\* settling a key.
C11_AtomicPatch ==
    [][/\ \A k \in PayloadEvents, d \in TimingData, m \in TimingMessages,
            x \in ExtraInputs :
             (markFulfilledExtras(k, d, m, x) \/ markRejectedExtras(k, d, m, x))
                 => /\ requests'[k].status \in Settled
                    /\ DOMAIN authState' = DOMAIN authState
                    /\ \A f \in DOMAIN authState :
                          authState'[f] = IF f \in DOMAIN x THEN x[f]
                                          ELSE authState[f]
       /\ authState' # authState
             => \E k \in PayloadEvents :
                   /\ requests'[k].status \in Settled
                   /\ lastMessage'[k] # "none"
                   /\ sinceSettle'[k] = 0]_vars

\* A key is settled and the session came with a settle payload.
C11_Witness ==
    \E k \in PayloadEvents :
        /\ requests[k].status \in Settled
        /\ authState["session"] # authInitialState["session"]

\* C12: once the store is destroyed no auto-reset timer is left, every
\* declared key is idle with message null, no other key has an entity, and
\* nothing patches the requests any more.
C12_DestroyClears ==
    /\ [](destroyed => /\ timers = {}
                       /\ requests = initialRequests
                       /\ \A k \in Events : IdleSnapshot(k))
    /\ [][destroyed => requests' = requests]_vars

\* The store was destroyed after a settle whose auto-reset was armed and
\* had not fired.
C12_Witness ==
    /\ destroyed
    /\ \E k \in Events :
          /\ sinceSettle[k] >= 1
          /\ sinceSettle[k] < resetDelay
          /\ resetAge[k] = -1

\* Exactly one of the four status flags of a snapshot is true.
OneFlag(snap) ==
    Cardinality({f \in {"isIdle", "isPending", "isFulfilled", "isRejected"} :
                    snap[f]}) = 1

\* C13: for every key, declared or not, exactly one of isIdle, isPending,
\* isFulfilled, isRejected is true and it is the one of status, isDisabled
\* equals isPending, and a key without entity or with its initial entity
\* has the idle snapshot.
C13_SnapshotConsistent ==
    \A k \in AllEvents :
        /\ OneFlag(requestStatus(k))
        /\ requestStatus(k).isIdle = (requestStatus(k).status = "idle")
        /\ requestStatus(k).isPending = (requestStatus(k).status = "pending")
        /\ requestStatus(k).isFulfilled = (requestStatus(k).status = "fulfilled")
        /\ requestStatus(k).isRejected = (requestStatus(k).status = "rejected")
        /\ requestStatus(k).isDisabled = requestStatus(k).isPending
        /\ requestStatus(k).event = k
        /\ (k \notin DOMAIN requests) => IdleSnapshot(k)
        /\ (k \in DOMAIN requests /\ requests[k] = initialRequests["SIGN_IN"])
               => IdleSnapshot(k)

\* An undeclared key was marked and shows a settled snapshot.
C13_WitnessMarked ==
    \E k \in UndeclaredEvents :
        k \in DOMAIN requests /\ requestStatus(k).isRejected

(***************************************************************************)
(* Properties of withResetState (SpecReset)                                *)
(***************************************************************************)
\* C5: after resetState() with no argument every public field has the value
\* it had when onInit ran, and every '_'-prefixed field has the value it had
\* just before the reset.
C5_ResetRestores ==
    resetPhase = "reset" =>
        /\ \A f \in PublicFields : fields[f] = stateAtInit[f]
        /\ \A f \in InternalFields : fields[f] = atReset[f]

(***************************************************************************)
(* Properties of withStorage (SpecTabs, SpecRoundTrip, SpecPersist)        *)
(***************************************************************************)
\* C4: broadcast no-loop.  No store posts on the broadcast channel when only
\* the receive handler's merge has changed its state.
C4_NoRebroadcast == ~rebroadcast

\* The projection a freshly created instance was given by the storage item.
RoundTrips(t) ==
    \A f \in Keys :
        tabState[t][f] = IF f \in DOMAIN hydratedFrom[t]
                         THEN hydratedFrom[t][f]
                         ELSE layoutInitialState[f]

\* C6: storage round-trip.  A fresh instance created on a key under which an
\* instance of the same configuration persisted its projection holds the
\* persisted value in every field of the projection and its own initial
\* value in every other field.
C6_RoundTrip == \A t \in Tabs : tabPhase[t] = "fresh" => RoundTrips(t)

\* A fresh instance took over a persisted value that differs from its
\* initial one, and has a field outside the projection.
C6_Witness ==
    \E t \in Tabs :
        /\ tabPhase[t] = "fresh"
        /\ DOMAIN hydratedFrom[t] # Keys
        /\ \E f \in DOMAIN hydratedFrom[t] :
              /\ hydratedFrom[t][f] # layoutInitialState[f]
              /\ tabState[t][f] = hydratedFrom[t][f]

\* No persist effect is dirty and no message is in flight.
Quiescent ==
    \A t \in Tabs : ~tabDirty[t] /\ inbox[t] = <<>>

\* A step from outside: a tab is opened or closed, or a method is called.
OutsideStep ==
    \/ OpenTab
    \/ CloseTab
    \/ SetAccessLayoutMode
    \/ SetPlatformLayoutMode
    \/ SetNavigationDrawerVisibility
    \/ ToggleNavigationDrawerVisibility
    \/ TogglePlatformLayoutMode

\* C7: cross-tab consistency.  Unless tabs are opened, closed or changed
\* locally again and again, every message is delivered and the tabs stay
\* quiescent from some point on.
C7_Quiescence == []<><<OutsideStep /\ TabFrame>>_vars \/ <>[]Quiescent

\* A run of the tab's persist effect, whatever throws in it.
PersistRun(t) ==
    \E f \in {"none", "serialize", "postMessage", "setItem"} : Persist(t, f)

\* C14: a run of the persist effect changes the storage and puts a message
\* on the channel only when shouldStore(state) holds; what it writes and
\* what it posts is the serialization of pick(state, include) when include
\* is non-empty, also when exclude is given, and of omit(state, exclude)
\* otherwise; and it changes no item but the one under the store's own key.
C14_PersistOnChange ==
    [][\A t \in Tabs : PersistRun(t) =>
          LET blob == serialize(IF options.include # {}
                                THEN pick(tabState[t], options.include)
                                ELSE omit(tabState[t], options.exclude))
          IN  /\ \A k \in StorageKeys \ {storeKey} : storage'[k] = storage[k]
              /\ storage'[storeKey] # storage[storeKey] =>
                    /\ shouldStore(options, tabState[t])
                    /\ storage'[storeKey] = Item(blob)
              /\ \A u \in Tabs : inbox'[u] # inbox[u] =>
                    /\ shouldStore(options, tabState[t])
                    /\ inbox'[u] = Append(inbox[u], blob)]_vars

\* With include and exclude both given, a tab changed its layout mode and
\* its effect wrote the picked field under the store's key and posted it to
\* the other tab.
C14_Witness ==
    \E t, u \in Tabs :
        LET blob == <<<<"platformLayoutMode", "compact">>>>
        IN  /\ u # t
            /\ options.include # {} /\ options.exclude # {}
            /\ tabState[t]["platformLayoutMode"] = "compact"
            /\ ~tabDirty[t]
            /\ storage[storeKey] = Item(blob)
            /\ inbox[u] # <<>> /\ inbox[u][Len(inbox[u])] = blob

\* C15: an error in the storage read or the parse at rehydration, in
\* serialize, postMessage or setItem of a persist run, or in the parse of an
\* incoming message is given to the exception callback and never leaves the
\* hook, the effect or the listener; the failed step leaves the store state
\* as it was (as constructed, for rehydration); and the store's methods
\* patch the state as ever, also right after such a step.
C15_ErrorsContained ==
    /\ [](~escaped)
    /\ [][\A t \in Tabs :
            /\ \A f \in {"serialize", "postMessage", "setItem"} :
                  Persist(t, f) => f \in raised' /\ tabState' = tabState
            /\ OpenWith(t, "browser", "getItem") =>
                  /\ "getItem" \in raised'
                  /\ tabState'[t] = layoutInitialState
            /\ \A f \in {"none", "channel"} :
                  (/\ OpenWith(t, "browser", f)
                   /\ storage[storeKey] = Item(Corrupt)) =>
                      /\ "deserialize" \in raised'
                      /\ tabState'[t] = layoutInitialState
            /\ (Receive(t, "none") /\ Head(inbox[t]) = Corrupt) =>
                  /\ "onmessage" \in raised'
                  /\ tabState' = tabState
            /\ \A m \in PlatformModes :
                  setPlatformLayoutMode(t, m) =>
                      tabState'[t]["platformLayoutMode"] = m]_vars

\* serialize threw in the effect run of the only open tab, the error went
\* to the exception callback, and a method call after it patched the state
\* and made the effect due again.
C15_Witness ==
    /\ raised = {"serialize"}
    /\ tabPhase["tab2"] = "closed"
    /\ tabPhase["tab1"] = "open" /\ tabDirty["tab1"]
    /\ tabState["tab1"]["platformLayoutMode"] = "compact"

\* A run of the tab's message listener, whatever throws in it.
ReceiveRun(t) == \E f \in {"none", "setItem"} : Receive(t, f)

\* C16: a store holds a channel only when broadcast is configured and only
\* between its onInit on the client and its onDestroy; onInit on the server
\* neither rehydrates nor creates the channel nor starts the persist effect;
\* a destroyed store has no channel, no effect run due and no message to
\* handle, and only live stores persist or handle messages; when the
\* construction of the channel throws, the error goes to the exception
\* callback and the store goes on writing its state to the storage, posting
\* nothing.
C16_ChannelLifecycle ==
    /\ [](\A t \in Tabs :
            /\ channel[t] =>
                  options.broadcast /\ tabPhase[t] # "closed" /\ persisting[t]
            /\ tabPhase[t] = "closed" =>
                  /\ ~channel[t] /\ ~persisting[t]
                  /\ ~tabDirty[t] /\ inbox[t] = <<>>)
    /\ [][\A t \in Tabs :
            /\ OpenWith(t, "server", "none") =>
                  /\ ~channel'[t] /\ ~persisting'[t] /\ ~tabDirty'[t]
                  /\ tabState'[t] = layoutInitialState
                  /\ raised' = {}
            /\ \A f \in {"none", "getItem"} :
                  OpenWith(t, "browser", f) =>
                      channel'[t] = options.broadcast /\ persisting'[t]
            /\ OpenWith(t, "browser", "channel") =>
                  /\ "channel" \in raised'
                  /\ ~channel'[t] /\ persisting'[t]
            /\ Close(t) => ~channel'[t] /\ ~persisting'[t]
            /\ PersistRun(t) => tabPhase[t] # "closed" /\ persisting[t]
            /\ ReceiveRun(t) => tabPhase[t] # "closed" /\ channel[t]
            /\ Len(inbox'[t]) > Len(inbox[t]) => channel[t]
            /\ (/\ Persist(t, "none")
                /\ ~channel[t]
                /\ shouldStore(options, tabState[t])) =>
                    /\ storage'[storeKey] =
                          Item(serialize(persistableState(options, tabState[t])))
                    /\ inbox' = inbox]_vars

\* With broadcast configured, the construction of one tab's channel threw;
\* the tab changed its layout mode and its effect wrote it to the storage,
\* while the other tab, its channel open, got no message.
C16_Witness ==
    \E t, u \in Tabs :
        /\ u # t
        /\ options.broadcast
        /\ persisting[t] /\ ~channel[t] /\ ~tabDirty[t]
        /\ tabState[t]["platformLayoutMode"] = "compact"
        /\ storage[storeKey] = Item(<<<<"platformLayoutMode", "compact">>>>)
        /\ channel[u] /\ inbox[u] = <<>>
        /\ tabState[u]["platformLayoutMode"] = "extended"

(***************************************************************************)
(* Properties of withLogger (SpecLog)                                      *)
(***************************************************************************)
\* The monitored keys: those of the monitor list, and all without one.
Monitored == IF loggerOptions.monitor # {} THEN loggerOptions.monitor
             ELSE CommonKeys

\* The monitored values of a state.
MonitoredValues(state) == [k \in Monitored |-> state[k].val]

\* C17: with the logger enabled, a run of the effect emits a group exactly
\* when the monitored values differ from those at its previous run (at
\* onInit, for the first run), and nothing else emits one; an emitted group
\* shows the monitored values before and after, its prev is the next of the
\* group before it, or the monitored values at onInit for the first group;
\* with the logger disabled no effect is registered and nothing is emitted.
C17_DiffGated ==
    /\ [][/\ LogEffect =>
                ((Len(logEntries') = Len(logEntries) + 1)
                    <=> (MonitoredValues(commonState) # lastSnapshot))
          /\ ~LogEffect => logEntries' = logEntries]_vars
    /\ [](\A i \in DOMAIN logEntries :
            /\ logEntries[i].prev # logEntries[i].next
            /\ logEntries[i].prev =
                  IF i = 1 THEN MonitoredValues(commonInitialState)
                  ELSE logEntries[i - 1].next)
    /\ [](logEntries # <<>> =>
            logEntries[Len(logEntries)].next = lastSnapshot)
    /\ [](loggerOptions.disabled => ~loggerDirty /\ logEntries = <<>>)

\* CommonStore with its monitor list: two loads brought the same countries
\* in two arrays, the effect has run, and one group was emitted for them.
C17_Witness ==
    /\ loggerOptions = CommonLoggerOptions
    /\ Len(logEntries) = 1
    /\ logEntries[1].next = MonitoredValues(commonState)
    /\ commonState["countries"] = Value(1, "in")
    /\ patches = 2
    /\ ~loggerDirty

(***************************************************************************)
(* Properties of withNavigation (SpecMenu)                                 *)
(***************************************************************************)
\* The items of an item, none when it has no items field.
childrenOf(menuItem) ==
    IF "items" \in DOMAIN menuItem THEN menuItem.items ELSE <<>>

\* The positions of a tree's items: the index at each level.
RECURSIVE Paths(_)
Paths(items) ==
    UNION {{<<i>>} \cup {<<i>> \o q : q \in Paths(childrenOf(items[i]))} :
            i \in DOMAIN items}

\* The item at a position.
RECURSIVE At(_, _)
At(items, p) ==
    IF Len(p) = 1 THEN items[p[1]]
    ELSE At(childrenOf(items[p[1]]), Tail(p))

\* The positions below a position.
Below(items, p) == {q \in Paths(items) : Len(q) > Len(p) /\ isPrefix(p, q)}

\* A toggle of menuId leaves an item alone: the item is neither the one
\* with that id nor above it.
Untouched(items, p, menuId) ==
    \A q \in {p} \cup Below(items, p) : At(items, q).id # menuId

\* What every toggle keeps: the shape and order of the tree, the flag of
\* the item with the id negated and no other flag changed, every other
\* field as it was.
ToggleKeeps(menuId) ==
    /\ Paths(menuItems') = Paths(menuItems)
    /\ \A p \in Paths(menuItems) :
          LET old == At(menuItems, p)
              new == At(menuItems', p)
          IN  /\ new.expanded = IF old.id = menuId
                                THEN negated(old.expanded) ELSE old.expanded
              /\ DOMAIN new = DOMAIN old
              /\ \A k \in DOMAIN old \ {"expanded", "items", "ref"} :
                    new[k] = old[k]

Active(menuItem) ==
    matchesActivePath(navigationEnd'[1], routerLinkOf(menuItem), "exact")

\* Some item below the position is active or expanded, or the item at the
\* position is active, in the menu a navigation has just evaluated.
HasActiveState(p) ==
    \/ \E q \in Below(menuItems', p) :
          Active(At(menuItems', q)) \/ At(menuItems', q).expanded = "true"
    \/ Active(At(menuItems', p))

\* C19 as stated: after a completed navigation every item of menuItems,
\* with or without items, is expanded exactly when some descendant is
\* active or expanded or its own route matches the current location.
C19_ExpandedWhenActive ==
    [][(\E url \in Urls : NavigationEnd(url)) =>
          \A p \in Paths(menuItems') :
              (At(menuItems', p).expanded = "true") <=> HasActiveState(p)]_vars

\* C19 as amended: after a completed navigation an item of menuItems is
\* expanded exactly when it has at least one item and some descendant is
\* active or expanded or its own route matches the current location; an
\* item without items is never expanded.
C19_ExpandedWhenParentActive ==
    [][(\E url \in Urls : NavigationEnd(url)) =>
          \A p \in Paths(menuItems') :
              (At(menuItems', p).expanded = "true") <=>
                  (/\ childrenOf(At(menuItems', p)) # <<>>
                   /\ HasActiveState(p))]_vars

\* A navigation ended on the route of an item two levels down: the item is
\* not expanded, the two items above it are.
C19_Witness ==
    /\ toggles = 0 /\ navigationEnd # <<>>
    /\ Len(menuItems) = 1
    /\ menuItems[1].expanded = "true"
    /\ Len(menuItems[1].items) = 1
    /\ menuItems[1].items[1].expanded = "true"
    /\ Len(menuItems[1].items[1].items) = 1
    /\ LET leaf == menuItems[1].items[1].items[1]
       IN  /\ leaf.expanded = "false"
           /\ routerLinkOf(leaf) = <<navigationEnd[1].path>>

\* The fields a re-evaluation may change, and the object itself.
Evaluated == {"expanded", "queryParamsHandling", "ref"}

\* C20 as stated: after a completed navigation the evaluated tree has the
\* shape of the stored one, and every evaluated item has the fields of the
\* declared item with the same values, expanded and queryParamsHandling
\* apart: no field is added, items and queryParams included.
C20_StructurePreserved ==
    [][(\E url \in Urls : NavigationEnd(url)) =>
          /\ Paths(menuItems') = Paths(declaredMenu)
          /\ \A p \in Paths(declaredMenu) :
                LET declared == At(declaredMenu, p)
                    evaluated == At(menuItems', p)
                IN  /\ DOMAIN evaluated \ Evaluated = DOMAIN declared \ Evaluated
                    /\ \A k \in DOMAIN declared \ (Evaluated \cup {"items"}) :
                          evaluated[k] = declared[k]]_vars

\* C20 as amended: after a completed navigation the evaluated tree has the
\* shape of the stored one, and every evaluated item has the fields of the
\* declared item with the same values, expanded and queryParamsHandling
\* apart, except that an item declared without items has items [] and an
\* item declared without queryParams has queryParams {}.
C20_StructureWithDefaults ==
    [][(\E url \in Urls : NavigationEnd(url)) =>
          /\ Paths(menuItems') = Paths(declaredMenu)
          /\ \A p \in Paths(declaredMenu) :
                LET declared == At(declaredMenu, p)
                    evaluated == At(menuItems', p)
                IN  /\ DOMAIN evaluated \ Evaluated =
                          (DOMAIN declared \ Evaluated)
                              \cup {"items", "queryParams"}
                    /\ \A k \in DOMAIN declared \ (Evaluated \cup {"items"}) :
                          evaluated[k] = declared[k]
                    /\ "items" \notin DOMAIN declared => evaluated.items = <<>>
                    /\ "queryParams" \notin DOMAIN declared =>
                          evaluated.queryParams = "{}"]_vars

\* A navigation ended over a menu like menuItemsConfig: a first item with
\* a route and nothing else keeps its id, label and route and has items []
\* and queryParams {}; the second item keeps its one item.
C20_Witness ==
    /\ toggles = 0 /\ navigationEnd # <<>>
    /\ Len(declaredMenu) = 2 /\ Len(menuItems) = 2
    /\ DOMAIN declaredMenu[1] = {"id", "ref", "label", "routerLink"}
    /\ menuItems[1].id = declaredMenu[1].id
    /\ menuItems[1].label = declaredMenu[1].label
    /\ menuItems[1].routerLink = declaredMenu[1].routerLink
    /\ menuItems[1].items = <<>>
    /\ menuItems[1].queryParams = "{}"
    /\ Len(menuItems[2].items) = Len(declaredMenu[2].items)


(***************************************************************************)
(* Independence of the auto-reset timers (SpecReq)                         *)
(***************************************************************************)
\* A settled key is set idle exactly resetDelay after its settle call.
ResetOnTime(k) ==
    (requests[k].status \in Settled /\ requests'[k].status = "idle"
         /\ ~destroyed')
        => sinceSettle[k] = resetDelay

\* A settled key does not outlive resetDelay.
ResetInTime(k) ==
    (Stable /\ requests[k].status \in Settled) => sinceSettle[k] < resetDelay

\* C28: the auto-reset timers of different keys are independent.  A key k
\* settled at time t, with no later mark call for k, returns to idle at
\* t + resetDelay, whatever mark calls and auto-resets happen on the other
\* keys in between: they neither restart nor delay k's timer.
C28_TimersIndependent ==
    /\ [](\A k \in Events : ResetInTime(k))
    /\ [][\A k \in Events : ResetOnTime(k)]_vars

(***************************************************************************)
(* selectRequestSnapshot (SpecReq)                                         *)
(***************************************************************************)
\* The longest event list a caller passes.
MaxEvents == 3

RECURSIVE EventLists(_)
EventLists(n) ==
    IF n = 0 THEN {<<>>}
    ELSE EventLists(n - 1)
             \cup {Append(l, e) : l \in {m \in EventLists(n - 1) : Len(m) = n - 1},
                                  e \in AllEvents}

\* The events argument: one event, or an array of events.
EventInputs ==
    {[isArray |-> FALSE, events |-> <<e>>] : e \in AllEvents}
        \cup {[isArray |-> TRUE, events |-> l] : l \in EventLists(MaxEvents)}

\* normalizeEvents(store, events): the selectors' event types, in order.
normalizeEvents(input) ==
    IF input.isArray THEN input.events ELSE <<input.events[1]>>

\* What a call gives: an Error, or the value of the computed signal.
Thrown == [threw |-> TRUE, snapshot |-> getRequestSnapshot("none", NoEntity)]
Returned(snapshot) == [threw |-> FALSE, snapshot |-> snapshot]

\* Mutant: the loop keeps the last non-idle snapshot.
RECURSIVE lastActive(_, _)
lastActive(selectors, i) ==
    IF i = 0 THEN requestStatus(selectors[1])
    ELSE IF ~requestStatus(selectors[i]).isIdle
         THEN requestStatus(selectors[i])
         ELSE lastActive(selectors, i - 1)

\* The computed's loop from selector i on, and its fallback.
RECURSIVE firstActive(_, _)
firstActive(selectors, i) ==
    IF i > Len(selectors) THEN requestStatus(selectors[1])
    ELSE IF ~requestStatus(selectors[i]).isIdle
         THEN requestStatus(selectors[i])
         ELSE firstActive(selectors, i + 1)

\* Mutant: the value of the signal is the last non-idle snapshot.
resolvedLast(selectors) == lastActive(selectors, Len(selectors))

\* The value of the computed signal for the selectors.
resolvedSnapshot(selectors) == firstActive(selectors, 1)

\* selectRequestSnapshot(store, events), read in the current state.
selectRequestSnapshot(input) ==
    LET selectors == normalizeEvents(input)
    IN  IF selectors = <<>> THEN Thrown
        ELSE Returned(resolvedSnapshot(selectors))

\* The events of the list, in order.
Listed(input) == IF input.isArray THEN input.events ELSE <<input.events[1]>>

\* C27: selectRequestSnapshot(store, events) yields, in every store state,
\* the snapshot of the first event in the given order whose snapshot is not
\* idle, and the snapshot of the first listed event when all are idle; it
\* throws when the event list is empty.
C27_FirstActive ==
    \A input \in EventInputs :
        LET l == Listed(input)
            active == {i \in 1..Len(l) : ~requestStatus(l[i]).isIdle}
            result == selectRequestSnapshot(input)
        IN  /\ l = <<>> => result.threw
            /\ (l # <<>> /\ active = {}) =>
                   /\ ~result.threw
                   /\ result.snapshot.event = l[1]
                   /\ result.snapshot = requestStatus(l[1])
            /\ active # {} =>
                   LET first == CHOOSE i \in active : \A j \in active : i <= j
                   IN  /\ ~result.threw
                       /\ result.snapshot.event = l[first]
                       /\ result.snapshot = requestStatus(l[first])
                       /\ ~result.snapshot.isIdle

\* Two later events are active and the first listed one is idle: the signal
\* shows the earlier of the two.
C27_Witness ==
    /\ requests["SIGN_IN"].status = "rejected"
    /\ requests["SIGN_OUT"].status = "pending"
    /\ selectRequestSnapshot(
           [isArray |-> TRUE,
            events |-> <<"RESET_PASSWORD", "SIGN_OUT", "SIGN_IN">>]).snapshot
         = requestStatus("SIGN_OUT")

(***************************************************************************)
(* What LayoutStore persists and broadcasts (SpecTabs)                     *)
(***************************************************************************)
\* A serialized blob holds platformLayoutMode alone, and not 'collapsed'.
ModeBlob(json) ==
    /\ parses(json)
    /\ DOMAIN deserialize(json) = {"platformLayoutMode"}
    /\ deserialize(json)["platformLayoutMode"] # "collapsed"

\* C30: for LayoutStore in any number of tabs on one storage and one
\* channel, after any sequence of setPlatformLayoutMode and
\* togglePlatformLayoutMode calls and message deliveries, the blob under the
\* layout state key never has platformLayoutMode 'collapsed', no message on
\* the channel carries 'collapsed', and the blob holds the platformLayoutMode
\* field alone.
C30_NeverCollapsed ==
    /\ getItem(storage, storeKey).present
           => ModeBlob(getItem(storage, storeKey).json)
    /\ \A t \in Tabs : \A i \in 1..Len(inbox[t]) : ModeBlob(inbox[t][i])

\* A tab is collapsed with its persist effect flushed, while the stored blob
\* and a message in flight hold another mode.
C30_Witness ==
    /\ getItem(storage, storeKey).present
    /\ \E t \in Tabs :
          /\ tabPhase[t] = "open"
          /\ ~tabDirty[t]
          /\ tabState[t]["platformLayoutMode"] = "collapsed"
    /\ \E t \in Tabs : inbox[t] # <<>>

(***************************************************************************)
(* Query persistence of a menu item (SpecQuery)                            *)
(***************************************************************************)
\* The six conditions of the tie-break, for the declared item and the
\* location of the last navigation.
Explicit == "queryParamsHandling" \in DOMAIN declaredMenu[1]
HasParams ==
    /\ "queryParams" \in DOMAIN declaredMenu[1]
    /\ declaredMenu[1].queryParams # "{}"
EmptyPath ==
    /\ "routerLink" \in DOMAIN declaredMenu[1]
    /\ declaredMenu[1].routerLink = <<>>
ExactlyActive ==
    /\ "routerLink" \in DOMAIN declaredMenu[1]
    /\ declaredMenu[1].routerLink = navigationEnd[1].path
ExtendedMatch ==
    /\ "routerLink" \in DOMAIN declaredMenu[1]
    /\ isPrefix(declaredMenu[1].routerLink, navigationEnd[1].path)
UrlHasQuery == navigationEnd[1].query

\* C22: the tie-break of resolveQueryPersistence.  The explicit handling
\* wins if given; else non-empty query params give 'merge'; else a route
\* that is not exactly active gets '' for an empty path and otherwise
\* 'preserve' iff the current route is an extended match; else the active
\* route gets 'preserve' iff the URL contains '?', otherwise ''.
C22_TieBreak ==
    menuItems # <<>> =>
        LET handling == menuItems[1].queryParamsHandling
        IN  /\ Explicit => handling = declaredMenu[1].queryParamsHandling
            /\ (~Explicit /\ HasParams) => handling = "merge"
            /\ (~Explicit /\ ~HasParams /\ ~ExactlyActive /\ EmptyPath)
                   => handling = "empty"
            /\ (~Explicit /\ ~HasParams /\ ~ExactlyActive /\ ~EmptyPath)
                   => handling = IF ExtendedMatch THEN "preserve" ELSE "empty"
            /\ (~Explicit /\ ~HasParams /\ ExactlyActive)
                   => handling = IF UrlHasQuery THEN "preserve" ELSE "empty"

\* An item with the empty path and nothing else declared was evaluated at a
\* location other than the root: it is an extended match and gets ''.
C22_Witness ==
    /\ menuItems # <<>>
    /\ ~Explicit /\ ~HasParams /\ EmptyPath /\ ~ExactlyActive /\ ExtendedMatch
    /\ UrlHasQuery
    /\ menuItems[1].queryParamsHandling = "empty"

(***************************************************************************)
(* The delayed reset of ViewTransitionStore (SpecTransition)               *)
(***************************************************************************)
\* The step in which a scheduled reset runs.
ResetRuns == ~resetFired /\ resetFired'

\* C26: reset cancellation.  resetTransitionMode(t) with t < 0 cancels any
\* scheduled reset and leaves _transitionMode and _transitionTarget as they
\* are; with t >= 0 it replaces any scheduled reset, so at most one reset is
\* pending, and the state becomes the initial state (mode 'none', target
\* null) t after the latest call unless another call intervenes.
C26_ResetCancellation ==
    /\ [](Cardinality(resetTimers) <= 1)
    /\ [](lastTimeout < 0 => resetTimers = {})
    /\ []((lastTimeout >= 0 /\ ~resetFired)
              => \E tm \in resetTimers : tm.left = lastTimeout - sinceReset)
    /\ []((lastTimeout >= 0 /\ resetFired) => resetTimers = {})
    /\ [][ResetRuns => (viewState' = viewInitialState
                            /\ sinceReset = lastTimeout)]_vars
    /\ [][\A t \in Timeouts :
              (t < 0 /\ resetTransitionModeCall(t)) => viewState' = viewState]_vars

\* A reset asked for by a direct call with the longest timeout has run,
\* that timeout after the call.
C26_Witness ==
    /\ resetFired
    /\ lastTimeout = MaxTimeout
    /\ sinceReset = lastTimeout
    /\ viewState = viewInitialState
    /\ \A id \in TransitionIds : transitionPhase[id] = "new"

\* C29: the mode and target set by the most recent handleTransition are
\* never reset by a reset scheduled on behalf of an earlier transition: in
\* every interleaving of handleTransition calls, finished callbacks, frame
\* callbacks and timers, they stay in place until the reset of that
\* transition runs.
C29_LatestTransitionKept ==
    [][(ResetRuns /\ stateOwner # 0)
           => \A tm \in resetTimers :
                  tm.owner \notin 1..(stateOwner - 1)]_vars

(***************************************************************************)
(* The router-state signals (SpecRouter)                                   *)
(***************************************************************************)
\* The step in which router.events emits, and the kind it emits.
Emission == routerEvent' # routerEvent
EmittedKind == routerEvent'[1].kind

\* What isNavigating is after an event of the kind, given what it was.
NavigatingAfter(was, kind) ==
    IF kind = "NavigationStart" THEN TRUE
    ELSE IF kind \in {"NavigationEnd", "NavigationCancel", "NavigationError"}
         THEN FALSE
    ELSE was

\* C23: for every sequence of router events, isNavigating (of the store
\* feature and of the service) is false before the first event, becomes
\* true at each NavigationStart, false at the next NavigationEnd,
\* NavigationCancel or NavigationError and is left unchanged by every other
\* event; navigationEnd is null until the first NavigationEnd, and
\* routerSnapshot changes only on NavigationEnd.
C23_NavigationSignals ==
    /\ [](routerEvent = <<>> => (~isNavigating /\ ~serviceIsNavigating))
    /\ [][Emission =>
            /\ isNavigating' = NavigatingAfter(isNavigating, EmittedKind)
            /\ serviceIsNavigating' =
                   NavigatingAfter(serviceIsNavigating, EmittedKind)]_vars
    /\ [][~Emission => (isNavigating' = isNavigating
                           /\ serviceIsNavigating' = serviceIsNavigating)]_vars
    /\ []((navigationEndSignal = <<>>) <=> ("NavigationEnd" \notin emittedKinds))
    /\ [][routerSnapshot' # routerSnapshot
              => (Emission /\ EmittedKind = "NavigationEnd")]_vars

\* A navigation was cancelled after it started and a later one ended: the
\* flags are false again, navigationEnd holds the end event and the
\* snapshot is the state activated before it.
C23_Witness ==
    /\ emittedKinds = {"NavigationStart", "NavigationCancel", "NavigationEnd"}
    /\ routerEvent # <<>>
    /\ routerEvent[1].kind = "NavigationEnd"
    /\ ~isNavigating
    /\ ~serviceIsNavigating
    /\ navigationEndSignal # <<>>
    /\ routerSnapshot = 1

(***************************************************************************)
(* The store accessors (SpecAccess)                                        *)
(***************************************************************************)
\* The value is a store built by signalStore: it carries the state-source
\* marker of @ngrx/signals.
CarriesMarker(store) == store \in {"signalStore", "resetStore"}

\* The step made by a call of the accessor, and the call.
Accessing(fn) ==
    /\ accessed' # accessed
    /\ accessed'[1].fn = fn
Call == accessed'[1]

\* C25: getStateSource(store) returns the store's current state snapshot
\* when the store carries the internal state-source marker and throws,
\* without any other effect, for every value that does not (null,
\* non-objects, objects without the marker); setResetState throws for a
\* store not composed with withResetState, and for every value without a
\* _setInitialState member, and otherwise replaces the reset snapshot.
C25_AccessorsThrow ==
    /\ [][Accessing("getStateSource") =>
            /\ UNCHANGED resetVars
            /\ IF CarriesMarker(Call.store)
               THEN Call.outcome =
                        Returns(IF Call.store = "resetStore" THEN fields
                                ELSE layoutInitialState)
               ELSE Call.outcome.threw]_vars
    /\ [][Accessing("setResetState") =>
            /\ UNCHANGED <<fields, resetPhase>>
            /\ IF Call.store = "resetStore"
               THEN ~Call.outcome.threw /\ initialState' = Call.state
               ELSE /\ initialState' = initialState
                    /\ Call.store # "memberObject" => Call.outcome.threw]_vars

\* setResetState replaced the reset snapshot of the store composed with
\* withResetState by a state that differs from the one captured at onInit.
C25_Witness ==
    /\ accessed # <<>>
    /\ accessed[1].fn = "setResetState"
    /\ accessed[1].store = "resetStore"
    /\ ~accessed[1].outcome.threw
    /\ resetPhase # "new"
    /\ initialState = accessed[1].state
    /\ initialState["session"] # stateAtInit["session"]

(***************************************************************************)
(* Failures of AuthStore's operations (SpecAuth)                           *)
(***************************************************************************)
\* The step in which a method is called, or its operation succeeds or
\* fails, and that step.
Stepping(kind) ==
    /\ authStep' # authStep
    /\ authStep'[1].kind = kind
Step == authStep'[1]

\* The message an entity shows for the message of an error: the text, or
\* null when the error has no message or an empty one.
ShownMessage(message) ==
    IF message \in {"undefined", "empty"} THEN "null" ELSE message

RECURSIVE PathTo(_, _)
PathTo(state, depth) ==
    IF depth = 0 THEN <<>>
    ELSE PathTo(state, depth - 1) \o state[depth].url

\* The level declares breadcrumb metadata that is not marked skip and has
\* a label: its own, as a string or an object, or else the one of its home
\* child route.
OwnLabel(level) ==
    /\ level.breadcrumb.kind \in {"string", "object"}
    /\ level.breadcrumb.skip # "true"
    /\ level.breadcrumb.label \notin {"undefined", "empty"}
HomeLabel(level) ==
    /\ level.breadcrumb.kind \notin {"string", "object"}
    /\ level.homePath # "none"

\* The level of the chain an entry stands for, by its label (0: none).
LevelOf(state, entry) ==
    IF \E i \in 1..Len(state) :
           \/ OwnLabel(state[i]) /\ entry.label = state[i].breadcrumb.label
           \/ HomeLabel(state[i]) /\ entry.label = state[i].homeLabel
    THEN CHOOSE i \in 1..Len(state) :
             \/ OwnLabel(state[i]) /\ entry.label = state[i].breadcrumb.label
             \/ HomeLabel(state[i]) /\ entry.label = state[i].homeLabel
    ELSE 0

\* C21: for every router snapshot the resolved breadcrumb list is ordered
\* root to leaf along the primary-outlet chain, contains an entry only for
\* levels with breadcrumb metadata that is not marked skip and has a label
\* (and one for each such level whose path no earlier entry has), and never
\* contains two entries with the same routerLink.
C21_Breadcrumbs ==
    breadcrumbs.done =>
        LET list == breadcrumbs.list
            state == navSnapshot
        IN  /\ \A b \in 1..Len(list) :
                   /\ LevelOf(state, list[b]) # 0
                   /\ OwnLabel(state[LevelOf(state, list[b])])
                          => list[b].routerLink =
                                 PathTo(state, LevelOf(state, list[b]) - 1)
                                     \o state[LevelOf(state, list[b])].url
            /\ \A b, c \in 1..Len(list) :
                   b < c => /\ LevelOf(state, list[b]) < LevelOf(state, list[c])
                            /\ list[b].routerLink # list[c].routerLink
            /\ \A i \in 1..Len(state) :
                   OwnLabel(state[i])
                       => \E b \in 1..Len(list) :
                              list[b].routerLink = PathTo(state, i)

\* The chain /users 'Users' then /users/create 'Create User' below a root
\* without home route: exactly the two entries, in that order.
C21_Witness ==
    /\ breadcrumbs.done
    /\ Len(navSnapshot) = 3
    /\ navSnapshot[2].url = <<"users">>
    /\ navSnapshot[2].breadcrumb = Breadcrumb("string", "Users", "undefined")
    /\ navSnapshot[3].url = <<"create">>
    /\ navSnapshot[3].breadcrumb = Breadcrumb("string", "Create User", "undefined")
    /\ navSnapshot[1].homePath = "none"
    /\ breadcrumbs.list =
           <<[label |-> "Users", routerLink |-> <<"users">>, home |-> FALSE],
             [label |-> "Create User", routerLink |-> <<"users", "create">>,
              home |-> FALSE]>>

=============================================================================
